---- MODULE Spec2Model ----
(***************************************************************************)
(* MGNREGA district tracker: the acquisition service of the server         *)
(* (MGNREGAService), its SQLite-backed cache and the routes calling it.    *)
(*                                                                         *)
(* Strings are sequences of one-character strings.  Wall-clock time is a   *)
(* whole number of hours counted from 2023-12-31T00:00:00Z.  Amounts in    *)
(* crores are held as integers in units of 10^-7 crore (one rupee), and    *)
(* two-decimal quantities in hundredths.                                   *)
(***************************************************************************)
EXTENDS Integers, Sequences, FiniteSets, TLC

\* ------------------------------------------------------------------ bounds

\* Clock ticks (of three hours) the model lets pass.
MaxTicks == 4
\* Requests the model lets start in one behaviour.
MaxRequests == 2
\* Longest history window requested.
MaxMonths == 2
\* Rows of an upstream response handed to processAPIData.
MaxRecords == 3
\* Clicks handled by the compare view.
MaxEvents == 4

\* ------------------------------------------------------- program constants

\* fetchDistrictData: 6 * 60 * 60 * 1000 ms, in hours.
CacheTTLHours == 6

\* ----------------------------------------------------------------- strings

\* null and undefined: a value no string of the model equals.
NULL == <<"null">>
\* The number NaN.
NaN == <<"NaN">>

toLowerCaseChar(c) ==
    CASE c = "A" -> "a" [] c = "B" -> "b" [] c = "C" -> "c" [] c = "D" -> "d"
      [] c = "E" -> "e" [] c = "F" -> "f" [] c = "G" -> "g" [] c = "H" -> "h"
      [] c = "I" -> "i" [] c = "J" -> "j" [] c = "K" -> "k" [] c = "L" -> "l"
      [] c = "M" -> "m" [] c = "N" -> "n" [] c = "O" -> "o" [] c = "P" -> "p"
      [] c = "Q" -> "q" [] c = "R" -> "r" [] c = "S" -> "s" [] c = "T" -> "t"
      [] c = "U" -> "u" [] c = "V" -> "v" [] c = "W" -> "w" [] c = "X" -> "x"
      [] c = "Y" -> "y" [] c = "Z" -> "z" [] OTHER -> c

\* String.prototype.toLowerCase
toLowerCase(s) == [i \in 1..Len(s) |-> toLowerCaseChar(s[i])]

\* The regular expression class \s on the characters the model uses.
IsSpace(c) == c = " "

\* s.replace(/\s+/g, r): every maximal run of whitespace becomes r.
RECURSIVE replaceSpaces(_, _)
replaceSpaces(s, r) ==
    IF s = <<>> THEN <<>>
    ELSE IF IsSpace(Head(s))
         THEN IF Len(s) > 1 /\ IsSpace(s[2])
              THEN replaceSpaces(Tail(s), r)
              ELSE r \o replaceSpaces(Tail(s), r)
         ELSE <<Head(s)>> \o replaceSpaces(Tail(s), r)

\* Whether needle occurs in hay at offset i (0-based).
OccursAt(hay, needle, i) ==
    /\ i + Len(needle) <= Len(hay)
    /\ \A k \in 1..Len(needle) : hay[i + k] = needle[k]

\* String.prototype.includes, as a left-to-right scan from offset i.
RECURSIVE includesFrom(_, _, _)
includesFrom(hay, needle, i) ==
    IF i + Len(needle) > Len(hay) THEN FALSE
    ELSE IF OccursAt(hay, needle, i) THEN TRUE
    ELSE includesFrom(hay, needle, i + 1)

\* Equality of the two strings.
includesExact(hay, needle) == hay = needle

includes(hay, needle) == includesFrom(hay, needle, 0)

\* String.prototype.charCodeAt on the characters of codes, periods and
\* timestamps (UTF-16 code units).
charCode(c) ==
    CASE c = " " -> 32 [] c = "-" -> 45 [] c = "." -> 46
      [] c = "0" -> 48 [] c = "1" -> 49 [] c = "2" -> 50 [] c = "3" -> 51
      [] c = "4" -> 52 [] c = "5" -> 53 [] c = "6" -> 54 [] c = "7" -> 55
      [] c = "8" -> 56 [] c = "9" -> 57 [] c = ":" -> 58
      [] c = "A" -> 65 [] c = "P" -> 80 [] c = "T" -> 84 [] c = "Z" -> 90

\* charCodeAt(i), 0-based; NaN past the end of the string.
charCodeAt(s, i) == IF i + 1 <= Len(s) THEN charCode(s[i + 1]) ELSE NaN

digitChar(d) ==
    CASE d = 0 -> "0" [] d = 1 -> "1" [] d = 2 -> "2" [] d = 3 -> "3"
      [] d = 4 -> "4" [] d = 5 -> "5" [] d = 6 -> "6" [] d = 7 -> "7"
      [] d = 8 -> "8" [] d = 9 -> "9"

pad2(n) == <<digitChar(n \div 10), digitChar(n % 10)>>

pad4(n) ==
    <<digitChar(n \div 1000), digitChar((n \div 100) % 10),
      digitChar((n \div 10) % 10), digitChar(n % 10)>>

\* SQLite's BINARY collation on TEXT: memcmp, the shorter string first on a
\* common prefix.  TRUE when a > b.
RECURSIVE textGreater(_, _)
textGreater(a, b) ==
    IF a = <<>> THEN FALSE
    ELSE IF b = <<>> THEN TRUE
    ELSE IF charCode(Head(a)) # charCode(Head(b))
         THEN charCode(Head(a)) > charCode(Head(b))
         ELSE textGreater(Tail(a), Tail(b))

\* ------------------------------------------------------------------- time

\* The calendar date of day d of the window (day 0 is 2023-12-31).
dateOf(d) ==
    IF d = 0 THEN [year |-> 2023, month |-> 12, day |-> 31]
    ELSE [year |-> 2024, month |-> 1, day |-> d]

dateText(h) ==
    LET dt == dateOf(h \div 24)
    IN  pad4(dt.year) \o <<"-">> \o pad2(dt.month) \o <<"-">> \o pad2(dt.day)

\* Date.prototype.toISOString: YYYY-MM-DDTHH:MM:SS.sssZ
toISOString(h) ==
    dateText(h) \o <<"T">> \o pad2(h % 24)
        \o <<":","0","0",":","0","0",".","0","0","0","Z">>

\* SQLite datetime('now'): YYYY-MM-DD HH:MM:SS
sqliteDatetimeNow(h) ==
    dateText(h) \o <<" ">> \o pad2(h % 24) \o <<":","0","0",":","0","0">>

\* moment().clone().subtract(i, 'months').format('YYYY-MM') at hour h.
monthsAgo(h, i) ==
    LET dt == dateOf(h \div 24)
        idx == dt.year * 12 + (dt.month - 1) - i
    IN  pad4(idx \div 12) \o <<"-">> \o pad2((idx % 12) + 1)

\* moment().format('YYYY-MM')
currentMonth(h) == monthsAgo(h, 0)

\* -------------------------------------------------------------- districts

andhraPradeshDistricts ==
  <<[code |-> <<"A","P","0","0","1">>, name |-> <<"A","n","a","n","t","a","p","u","r">>],
    [code |-> <<"A","P","0","0","2">>, name |-> <<"C","h","i","t","t","o","o","r">>],
    [code |-> <<"A","P","0","0","3">>, name |-> <<"E","a","s","t"," ","G","o","d","a","v","a","r","i">>],
    [code |-> <<"A","P","0","0","4">>, name |-> <<"G","u","n","t","u","r">>],
    [code |-> <<"A","P","0","0","5">>, name |-> <<"K","r","i","s","h","n","a">>],
    [code |-> <<"A","P","0","0","6">>, name |-> <<"K","u","r","n","o","o","l">>],
    [code |-> <<"A","P","0","0","7">>, name |-> <<"N","e","l","l","o","r","e">>],
    [code |-> <<"A","P","0","0","8">>, name |-> <<"P","r","a","k","a","s","a","m">>],
    [code |-> <<"A","P","0","0","9">>, name |-> <<"S","r","i","k","a","k","u","l","a","m">>],
    [code |-> <<"A","P","0","1","0">>, name |-> <<"V","i","s","a","k","h","a","p","a","t","n","a","m">>],
    [code |-> <<"A","P","0","1","1">>, name |-> <<"V","i","z","i","a","n","a","g","a","r","a","m">>],
    [code |-> <<"A","P","0","1","2">>, name |-> <<"W","e","s","t"," ","G","o","d","a","v","a","r","i">>],
    [code |-> <<"A","P","0","1","3">>, name |-> <<"Y","S","R"," ","K","a","d","a","p","a">>]>>

AP003 == <<"A","P","0","0","3">>
AP004 == <<"A","P","0","0","4">>
AP005 == <<"A","P","0","0","5">>
AP007 == <<"A","P","0","0","7">>
AP012 == <<"A","P","0","1","2">>
AP013 == <<"A","P","0","1","3">>

DistrictCodes == {andhraPradeshDistricts[i].code : i \in 1..Len(andhraPradeshDistricts)}

\* What find returns when no district has the code (undefined).
NoDistrict == [code |-> NULL, name |-> NULL]

\* andhraPradeshDistricts.find(d => d.code === districtCode)
findDistrict(districtCode) ==
    LET hits == {i \in 1..Len(andhraPradeshDistricts) :
                    andhraPradeshDistricts[i].code = districtCode}
    IN  IF hits = {} THEN NoDistrict
        ELSE andhraPradeshDistricts[CHOOSE i \in hits : \A j \in hits : i <= j]

\* ------------------------------------------------------------ name matcher

\* The aliases pushed for the "known API variations".
aliases(code) ==
    (IF code = AP013
     THEN << <<"y",".","s",".","r">>, <<"y","s","r">>,
             <<"k","a","d","a","p","a">>, <<"y"," ","s"," ","r">> >>
     ELSE <<>>)
    \o (IF code = AP004
        THEN << <<"n","t","r">>, <<"g","u","n","t","u","r">> >>
        ELSE <<>>)
    \o (IF code = AP012
        THEN << <<"w","e","s","t"," ","g","o","d","a","v","a","r","i">>,
                <<"w","e","s","t","g","o","d","a","v","a","r","i">> >>
        ELSE <<>>)
    \o (IF code = AP003
        THEN << <<"e","a","s","t"," ","g","o","d","a","v","a","r","i">>,
                <<"e","a","s","t","g","o","d","a","v","a","r","i">> >>
        ELSE <<>>)

\* The candidate names of a district, in the order the filter builds them.
possibleNames(targetDistrict) ==
    << toLowerCase(targetDistrict.name),
       replaceSpaces(toLowerCase(targetDistrict.name), <<>>),
       replaceSpaces(toLowerCase(targetDistrict.name), <<".">>) >>
    \o aliases(targetDistrict.code)

\* The predicate of records.filter in processAPIData.  A record without a
\* district_name (NULL) or with an empty one is dropped.
recordMatches(record, districtCode) ==
    LET targetDistrict == findDistrict(districtCode)
    IN  IF targetDistrict = NoDistrict \/ record.district_name = NULL
           \/ record.district_name = <<>>
        THEN FALSE
        ELSE LET districtName == toLowerCase(record.district_name)
                 names == possibleNames(targetDistrict)
             IN  \E i \in 1..Len(names) : includes(districtName, names[i])

\* ------------------------------------------------------------------ scorer

\* calculatePerformanceScore: avgDays > t is decided as person_days > t * households
\* (households > 0), the same comparison on exact quotients.
scoreTiersSwapped(total_households, total_person_days) ==
    LET h == total_households
        pd == total_person_days
        s1 == IF h > 30000 THEN 20
              ELSE IF h > 20000 THEN 10
              ELSE IF h > 10000 THEN 15
              ELSE IF h > 5000 THEN 5 ELSE 0
        s2 == IF h > 0
              THEN IF pd > 25 * h THEN 20
                   ELSE IF pd > 20 * h THEN 15
                   ELSE IF pd > 15 * h THEN 10
                   ELSE IF pd > 10 * h THEN 5 ELSE 0
              ELSE 0
        score == 60 + s1 + s2
    IN  IF score < 100 THEN score ELSE 100

calculatePerformanceScore(total_households, total_person_days) ==
    LET h == total_households
        pd == total_person_days
        s1 == IF h > 30000 THEN 20
              ELSE IF h > 20000 THEN 15
              ELSE IF h > 10000 THEN 10
              ELSE IF h > 5000 THEN 5 ELSE 0
        s2 == IF h > 0
              THEN IF pd > 25 * h THEN 20
                   ELSE IF pd > 20 * h THEN 15
                   ELSE IF pd > 15 * h THEN 10
                   ELSE IF pd > 10 * h THEN 5 ELSE 0
              ELSE 0
        score == 60 + s1 + s2
    IN  IF score < 100 THEN score ELSE 100

\* ------------------------------------------------------ upstream records

\* A record of the upstream response.  A numeric field is Num(n), n an
\* integer in the unit of the bundle field it feeds, Missing when the record
\* has no such field, or Garbage when its text does not parse as a number.
Num(n) == <<"num", n>>
Missing == <<"missing">>
Garbage == <<"garbage">>

EmptyRecord ==
    [district_name |-> NULL,
     Persondays_of_Central_Liability_so_far |-> Missing,
     Total_Households_Worked |-> Missing,
     Total_Exp |-> Missing,
     Average_days_of_employment_provided_per_Household |-> Missing,
     Average_Wage_rate_per_day_per_person |-> Missing,
     Women_Persondays |-> Missing,
     SC_persondays |-> Missing,
     ST_persondays |-> Missing,
     Number_of_Completed_Works |-> Missing,
     Number_of_Ongoing_Works |-> Missing,
     Total_Individuals_Worked |-> Missing,
     Total_No_of_JobCards_issued |-> Missing,
     Total_No_of_HHs_completed_100_Days_of_Wage_Employment |-> Missing,
     Differently_abled_persons_worked |-> Missing,
     percentage_payments_gererated_within_15_days |-> Missing,
     fin_year |-> NULL,
     month |-> NULL]

\* The parsed number, or -1 for a value that is no number.
parseNoDefault(v) == IF v[1] = "num" THEN v[2] ELSE -1

\* parseInt(v) || 0 and parseFloat(v) || 0: a missing or unparseable value
\* parses to NaN, and NaN and 0 are both falsy.
parseOrZero(v) == IF v[1] = "num" THEN v[2] ELSE 0

\* Math.round((amount / households) * 100) / 100 in hundredths, the amount in
\* units of 10^-7: floor(amount / (10^5 * households) + 1/2).
roundPerHousehold(amount, households) ==
    (((2 * amount) \div households) + 100000) \div 200000

SourceUpstream == <<"d","a","t","a",".","g","o","v",".","i","n">>
SourceMock == <<"m","o","c","k","_","d","a","t","a">>
Unknown == <<"U","n","k","n","o","w","n">>

\* The outcome of a call: a returned value or a thrown error.
Returned(v) == [ok |-> TRUE, value |-> v, error |-> NULL]
Threw(e) == [ok |-> FALSE, value |-> NULL, error |-> e]

\* The last of the district's records.
latestRecordLast(districtRecords) == districtRecords[Len(districtRecords)]

\* const latestRecord = districtRecords[0]
latestRecordOf(districtRecords) == districtRecords[1]

\* processAPIData(records, districtCode, monthYear), called at hour h.
processAPIData(records, districtCode, monthYear, h) ==
    LET Test(record) == recordMatches(record, districtCode)
        districtRecords == SelectSeq(records, Test)
    IN  IF Len(districtRecords) = 0
        THEN Threw("No data found for district")
        ELSE
          LET latestRecord == latestRecordOf(districtRecords)
              district == findDistrict(districtCode)
              totalPersonDays ==
                  parseOrZero(latestRecord.Persondays_of_Central_Liability_so_far)
              totalHouseholds == parseOrZero(latestRecord.Total_Households_Worked)
              totalAmountSpent == parseOrZero(latestRecord.Total_Exp)
          IN  Returned(
               [district_code |-> districtCode,
                district_name |->
                    IF district # NoDistrict THEN district.name
                    ELSE IF latestRecord.district_name # NULL
                            /\ latestRecord.district_name # <<>>
                         THEN latestRecord.district_name ELSE Unknown,
                month_year |-> monthYear,
                total_households |-> totalHouseholds,
                total_person_days |-> totalPersonDays,
                total_amount_spent |-> totalAmountSpent,
                avg_days_per_household |-> parseOrZero(
                    latestRecord.Average_days_of_employment_provided_per_Household),
                avg_amount_per_household |->
                    IF totalHouseholds > 0
                    THEN roundPerHousehold(totalAmountSpent, totalHouseholds)
                    ELSE 0,
                performance_score |->
                    calculatePerformanceScore(totalHouseholds, totalPersonDays),
                data_source |-> SourceUpstream,
                last_updated |-> toISOString(h),
                financial_year |-> latestRecord.fin_year,
                month |-> latestRecord.month,
                average_wage_rate |->
                    parseOrZero(latestRecord.Average_Wage_rate_per_day_per_person),
                women_persondays |-> parseOrZero(latestRecord.Women_Persondays),
                sc_persondays |-> parseOrZero(latestRecord.SC_persondays),
                st_persondays |-> parseOrZero(latestRecord.ST_persondays),
                completed_works |-> parseOrZero(latestRecord.Number_of_Completed_Works),
                ongoing_works |-> parseOrZero(latestRecord.Number_of_Ongoing_Works),
                total_individuals_worked |->
                    parseOrZero(latestRecord.Total_Individuals_Worked),
                total_job_cards |-> parseOrZero(latestRecord.Total_No_of_JobCards_issued),
                households_100_days |-> parseOrZero(
                    latestRecord.Total_No_of_HHs_completed_100_Days_of_Wage_Employment),
                differently_abled_worked |->
                    parseOrZero(latestRecord.Differently_abled_persons_worked),
                payment_within_15_days |-> parseOrZero(
                    latestRecord.percentage_payments_gererated_within_15_days)])

\* --------------------------------------------------- synthetic generator

\* s.split('-')
RECURSIVE splitDash(_)
splitDash(s) ==
    LET dashes == {i \in 1..Len(s) : s[i] = "-"}
    IN  IF dashes = {} THEN <<s>>
        ELSE LET i == CHOOSE k \in dashes : \A j \in dashes : k <= j
             IN  <<SubSeq(s, 1, i - 1)>> \o splitDash(SubSeq(s, i + 1, Len(s)))

\* parseInt on a string of decimal digits.
RECURSIVE parseDigits(_)
parseDigits(s) ==
    IF s = <<>> THEN 0
    ELSE 10 * parseDigits(SubSeq(s, 1, Len(s) - 1)) + (charCode(s[Len(s)]) - 48)

\* fetchRealAPIData's table of month names.
monthNames ==
    << <<"J","a","n">>, <<"F","e","b">>, <<"M","a","r">>, <<"A","p","r">>,
       <<"M","a","y">>, <<"J","u","n">>, <<"J","u","l">>, <<"A","u","g">>,
       <<"S","e","p">>, <<"O","c","t">>, <<"N","o","v">>, <<"D","e","c">> >>

\* The query parameters fetchRealAPIData sends for a period YYYY-MM, the
\* api-key left out.  monthNames[parseInt(month) - 1] counts from 0.
params(monthYear) ==
    LET year == splitDash(monthYear)[1]
        month == splitDash(monthYear)[2]
        finYear == year \o <<"-">> \o pad4(parseDigits(year) + 1)
        monthName == monthNames[(parseDigits(month) - 1) + 1]
    IN  [format |-> <<"j","s","o","n">>,
         limit |-> 1000,
         state_name |-> <<"A","N","D","H","R","A"," ","P","R","A","D","E","S","H">>,
         fin_year |-> finYear,
         month |-> monthName]

\* The first eight decimals of the fractional part of Math.sin(seed) * 10000,
\* as <<first four, next four>>, for seed = 144 .. 162.
sinFraction(seed) ==
    << <<7840, 6101>>, <<4516, 2045>>, <<6917, 3121>>, <<4402, 1883>>,
       <<6660, 5675>>, <<5135, 1905>>, <<2357,  370>>, <<4988, 1415>>,
       <<2052, 3748>>, <<  58,  775>>, <<7966, 2743>>, <<8801, 7225>>,
       <<1538, 1185>>, <<5145, 7125>>, <<2409, 6527>>, <<1973, 1713>>,
       <<2525, 8379>>, <<9221, 4422>>, <<4964, 9206>> >>[seed - 143]

\* A seed that takes the last digit of the year for the first digit of the
\* month.
mockSeedOfYear(districtCode, monthYear) ==
    charCodeAt(districtCode, 2) + charCodeAt(monthYear, 3) + charCodeAt(monthYear, 6)

\* The synthetic generator's seed: three character codes added up.
mockSeed(districtCode, monthYear) ==
    charCodeAt(districtCode, 2) + charCodeAt(monthYear, 5) + charCodeAt(monthYear, 6)

\* A draw scaled by twice the width of the range.
seededRandomDoubled(seed, min, max) ==
    LET n == 2 * (max - min + 1)
        q1 == sinFraction(seed)[1] * n
        q2 == sinFraction(seed)[2] * n
    IN  min + (q1 \div 10000) + (((q1 % 10000) * 10000 + q2) \div 100000000)

\* seededRandom(min, max) = min + floor(frac * (max - min + 1)), frac the
\* fractional part above, multiplied out in two four-digit limbs.
seededRandom(seed, min, max) ==
    LET n == max - min + 1
        q1 == sinFraction(seed)[1] * n
        q2 == sinFraction(seed)[2] * n
    IN  min + (q1 \div 10000) + (((q1 % 10000) * 10000 + q2) \div 100000000)

\* The bundle generateMockData builds from a seed, at hour h.
mockBundle(districtCode, monthYear, h, seed) ==
    LET district == findDistrict(districtCode)
        baseHouseholds == seededRandom(seed, 15000, 45000)
        avgDaysPerHousehold == seededRandom(seed, 18, 28)
        totalPersonDays == baseHouseholds * avgDaysPerHousehold
        wageRate == seededRandom(seed, 200, 250)
        totalAmount == totalPersonDays * wageRate
        year == splitDash(monthYear)[1]
    IN  [district_code |-> districtCode,
         district_name |-> IF district # NoDistrict THEN district.name ELSE Unknown,
         month_year |-> monthYear,
         total_households |-> baseHouseholds,
         total_person_days |-> totalPersonDays,
         total_amount_spent |-> totalAmount,
         avg_days_per_household |-> avgDaysPerHousehold * 100,
         avg_amount_per_household |-> roundPerHousehold(totalAmount, baseHouseholds),
         performance_score |-> seededRandom(seed, 75, 95),
         data_source |-> SourceMock,
         last_updated |-> toISOString(h),
         financial_year |-> year \o <<"-">> \o pad4(parseDigits(year) + 1),
         month |-> splitDash(monthYear)[2],
         average_wage_rate |-> wageRate * 100,
         women_persondays |-> (totalPersonDays * 2) \div 5,
         sc_persondays |-> (totalPersonDays * 3) \div 20,
         st_persondays |-> (totalPersonDays * 2) \div 25,
         completed_works |-> seededRandom(seed, 50, 200),
         ongoing_works |-> seededRandom(seed, 100, 300),
         total_individuals_worked |-> (baseHouseholds * 6) \div 5,
         total_job_cards |-> (baseHouseholds * 11) \div 10,
         households_100_days |-> (baseHouseholds * 3) \div 20,
         differently_abled_worked |-> baseHouseholds \div 50,
         payment_within_15_days |-> seededRandom(seed, 75, 95) * 100]

\* generateMockData(districtCode, monthYear), called at hour h.
generateMockData(districtCode, monthYear, h) ==
    mockBundle(districtCode, monthYear, h, mockSeed(districtCode, monthYear))

\* ------------------------------------------------------------------ state

VARIABLES
    READ_ONLY_DB,      \* the deployment's read-only flag
    now,               \* wall clock, in hours
    api_cache,         \* the api_cache table: a set of rows, cache_key unique
    performance_data,  \* the performance_data table: rows in insertion order
    req,               \* the request each handler slot is serving
    nreq,              \* requests and scheduled runs started so far
    input,             \* the arguments of a function applied on its own
    output,            \* <<its result>>, <<>> before it is applied
    view               \* the CompareSection component and its requests

vars == <<READ_ONLY_DB, now, api_cache, performance_data, req, nreq, input, output,
          view>>

\* The handlers that may be in flight together.
Slots == {1, 2}

\* ------------------------------------------------------------------ store

\* `district_${districtCode}_${monthYear}`
cacheKey(districtCode, monthYear) ==
    <<"d","i","s","t","r","i","c","t","_">> \o districtCode \o <<"_">> \o monthYear

\* JSON.stringify of a bundle (the text kept in api_cache.data) and
\* JSON.parse of that text.
JSONstringify(data) == [json |-> data]
JSONparse(text) == text.json

cacheRowNoTtl(key, data, ttl, h) ==
    [cache_key |-> key, data |-> JSONstringify(data),
     expires_at |-> toISOString(h)]

\* The row setCachedData binds: expires_at is computed when the call is made.
cacheRow(key, data, ttl, h) ==
    [cache_key |-> key, data |-> JSONstringify(data),
     expires_at |-> toISOString(h + ttl)]

\* setCachedData's first statement: `if (READ_ONLY_DB) return;`.
setCachedDataWritesAlways(readOnly) == TRUE

setCachedDataWrites(readOnly) == ~readOnly

\* A plain INSERT.
cacheInsert(table, row) == table \cup {row}

\* INSERT OR REPLACE INTO api_cache: cache_key is UNIQUE.
cacheUpsert(table, row) ==
    {r \in table : r.cache_key # row.cache_key} \cup {row}

\* The WHERE clause of getCachedData at hour h: a comparison of two texts.
liveRow(row, h) == textGreater(row.expires_at, sqliteDatetimeNow(h))

\* A read that finds no row.
getCachedDataNone(table, key, h) == <<>>

\* getCachedData(key) at hour h: <<>> for null, else <<the parsed data>>.
getCachedData(table, key, h) ==
    LET rows == {r \in table : r.cache_key = key /\ liveRow(r, h)}
    IN  IF rows = {} THEN <<>>
        ELSE <<JSONparse((CHOOSE r \in rows : TRUE).data)>>

\* The values the routes bind to INSERT OR REPLACE INTO performance_data;
\* a property the object lacks (undefined) is bound as NULL.
perfRow(district_code, data) ==
    [district_code |-> district_code,
     month_year |-> data.month_year,
     total_households |-> data.total_households,
     total_person_days |-> data.total_person_days,
     total_amount_spent |-> data.total_amount_spent,
     avg_days_per_household |-> data.avg_days_per_household,
     avg_amount_per_household |-> data.avg_amount_per_household]

\* INSERT OR REPLACE under UNIQUE(district_code, month_year): a NULL never
\* conflicts, so such a row is always added.
perfUpsert(table, row) ==
    IF row.district_code = NULL \/ row.month_year = NULL
    THEN Append(table, row)
    ELSE LET Other(r) == ~(r.district_code = row.district_code
                           /\ r.month_year = row.month_year)
         IN  Append(SelectSeq(table, Other), row)

RECURSIVE perfUpsertAll(_, _)
perfUpsertAll(table, rows) ==
    IF rows = <<>> THEN table
    ELSE perfUpsertAll(perfUpsert(table, Head(rows)), Tail(rows))

\* --------------------------------------------------------------- upstream

RespError == [kind |-> "error", records |-> <<>>]
RespNoRecords == [kind |-> "noRecords", records |-> <<>>]
RespRecords(rs) == [kind |-> "records", records |-> rs]

\* fetchRealAPIData once axios.get has settled with response resp.
fetchRealAPIData(resp, districtCode, monthYear, h) ==
    IF resp.kind = "error" THEN Threw("Request failed")
    ELSE IF resp.kind = "records"
         THEN processAPIData(resp.records, districtCode, monthYear, h)
         ELSE Threw("No data received from API")

computedDataNoFallback(resp, districtCode, monthYear, h) ==
    fetchRealAPIData(resp, districtCode, monthYear, h)

\* fetchDistrictData, lines 143-152: realData || generateMockData(...).
computedData(resp, districtCode, monthYear, h) ==
    LET realData == fetchRealAPIData(resp, districtCode, monthYear, h)
    IN  IF realData.ok THEN realData
        ELSE Returned(generateMockData(districtCode, monthYear, h))

\* --------------------------------------------------------------- requests

\* What is kept of an upstream response once it has been processed: its kind
\* and the district names of its records, as processAPIData logs them.
Logged(resp) ==
    [kind |-> resp.kind,
     names |-> [k \in 1..Len(resp.records) |-> resp.records[k].district_name]]

IdleReq ==
    [id |-> 0, kind |-> "idle", pc |-> "idle", codes |-> <<>>, monthYear |-> NULL,
     months |-> 0, startedAt |-> 0, i |-> 0,
     districtCode |-> NULL, fetchMonth |-> NULL,
     cacheRead |-> "none", resp |-> Logged(RespError), upstream |-> "none",
     data |-> <<>>, row |-> <<>>,
     readAt |-> 0, doneBefore |-> {},
     attempts |-> <<>>, out |-> <<>>, status |-> 0]

\* A handler whose call sends the upstream request along with the SELECT.
CallFetchAhead(r, districtCode, fetchMonth) ==
    [r EXCEPT !.pc = "upstream", !.districtCode = districtCode,
              !.fetchMonth = fetchMonth, !.cacheRead = "none",
              !.resp = Logged(RespError), !.upstream = "none",
              !.data = <<>>, !.row = <<>>, !.readAt = 0, !.doneBefore = {}]

\* A handler that has called fetchDistrictData(districtCode, fetchMonth): the
\* SELECT of getCachedData is queued.
CallFetch(r, districtCode, fetchMonth) ==
    [r EXCEPT !.pc = "cache_read", !.districtCode = districtCode,
              !.fetchMonth = fetchMonth, !.cacheRead = "none",
              !.resp = Logged(RespError), !.upstream = "none",
              !.data = <<>>, !.row = <<>>, !.readAt = 0, !.doneBefore = {}]

\* What one fetchDistrictData call did, kept with the request.
Attempt(r, write, result) ==
    [id |-> r.id, districtCode |-> r.districtCode, monthYear |-> r.fetchMonth,
     cacheRead |-> r.cacheRead, readAt |-> r.readAt,
     doneBefore |-> r.doneBefore,
     upstream |-> r.upstream, resp |-> r.resp,
     write |-> write, ok |-> result.ok,
     value |-> IF result.ok THEN <<result.value>> ELSE <<>>]

ReverseNot(seq) == seq

\* Array.prototype.reverse
Reverse(seq) == [k \in 1..Len(seq) |-> seq[Len(seq) + 1 - k]]

\* The entry getDistrictHistory pushes for a fetched bundle.
historyEntry(monthYear, data) ==
    [month_year |-> monthYear,
     total_households |-> data.total_households,
     total_person_days |-> data.total_person_days,
     total_amount_spent |-> data.total_amount_spent,
     avg_days_per_household |-> data.avg_days_per_household,
     avg_amount_per_household |-> data.avg_amount_per_household,
     performance_score |-> data.performance_score,
     data_source |-> data.data_source]

\* The entry getDistrictHistory pushes when the fetch threw.
historyMockEntry(districtCode, monthYear, h) ==
    [historyEntry(monthYear, generateMockData(districtCode, monthYear, h))
        EXCEPT !.data_source = <<"m","o","c","k">>]

\* The row getDistrictComparison pushes.
comparisonRow(code, data) ==
    [district_code |-> code,
     district_name |-> data.district_name,
     total_households |-> data.total_households,
     total_person_days |-> data.total_person_days,
     total_amount_spent |-> data.total_amount_spent,
     avg_days_per_household |-> data.avg_days_per_household,
     performance_score |-> data.performance_score]

comparisonPushOrReset(comparison, code, result) ==
    IF result.ok THEN Append(comparison, comparisonRow(code, result.value))
    ELSE <<>>

\* The body of getDistrictComparison's loop once the fetch has settled: the
\* row is pushed, or the rejection is caught and logged.
comparisonPush(comparison, code, result) ==
    IF result.ok THEN Append(comparison, comparisonRow(code, result.value))
    ELSE comparison

\* The history route's INSERT OR REPLACE for each entry: the entries carry no
\* district_code, so data.district_code is undefined.
historyPerfRows(history) == [k \in 1..Len(history) |-> perfRow(NULL, history[k])]

\* The handler's code after `await fetchDistrictData(...)` settles with
\* `result`, up to its next await or its response; r0 is the request as the
\* fetch leaves it.
Settle(p, r0, write, result) ==
    LET r == [r0 EXCEPT !.attempts = Append(@, Attempt(r0, write, result)),
                        !.data = <<>>, !.row = <<>>]
    IN
    CASE r.kind = "performance" ->
           /\ req' = [req EXCEPT ![p] =
                 [r EXCEPT !.pc = "done",
                           !.out = IF result.ok THEN <<result.value>> ELSE <<>>,
                           !.status = IF result.ok THEN 200 ELSE 500]]
           /\ performance_data' =
                 IF result.ok /\ ~READ_ONLY_DB
                 THEN perfUpsert(performance_data,
                                 perfRow(result.value.district_code, result.value))
                 ELSE performance_data
      [] r.kind = "history" ->
           LET entry == IF result.ok
                        THEN historyEntry(r.fetchMonth, result.value)
                        ELSE historyMockEntry(r.districtCode, r.fetchMonth, now)
               history == Append(r.out, entry)
           IN  IF r.i + 1 < r.months
               THEN /\ req' = [req EXCEPT ![p] =
                          CallFetch([r EXCEPT !.i = @ + 1, !.out = history],
                                    r.districtCode,
                                    monthsAgo(r.startedAt, r.i + 1))]
                    /\ UNCHANGED performance_data
               ELSE /\ req' = [req EXCEPT ![p] =
                          [r EXCEPT !.pc = "done",
                                    !.i = @ + 1,
                                    !.out = Reverse(history), !.status = 200]]
                    /\ performance_data' =
                          IF ~READ_ONLY_DB
                          THEN perfUpsertAll(performance_data,
                                             historyPerfRows(Reverse(history)))
                          ELSE performance_data
      [] r.kind = "comparison" ->
           LET comparison == comparisonPush(r.out, r.districtCode, result)
           IN  /\ req' = [req EXCEPT ![p] =
                     IF r.i + 1 < Len(r.codes)
                     THEN CallFetch([r EXCEPT !.i = @ + 1, !.out = comparison],
                                    r.codes[r.i + 2], r.monthYear)
                     ELSE [r EXCEPT !.pc = "done",
                                    !.i = @ + 1,
                                    !.out = comparison, !.status = 200]]
               /\ UNCHANGED performance_data

\* ---------------------------------------------------- fetchDistrictData

\* What fetchDistrictData throws from its outer catch.
FetchFailed == Threw("Failed to fetch district data")

\* The SELECT of getCachedData runs.  A hit returns the cached data; a miss
\* sends the upstream request; a store error is rethrown by the outer catch.
CacheRead(p, dbOk) ==
    /\ req[p].pc = "cache_read"
    /\ LET r == req[p]
           cachedData == getCachedData(api_cache,
                             cacheKey(r.districtCode, r.fetchMonth), now)
           r1 == [r EXCEPT !.readAt = now,
                           !.doneBefore = {req[q].id : q \in {q \in Slots : req[q].pc = "done"}}]
       IN  IF ~dbOk
           THEN Settle(p, [r1 EXCEPT !.cacheRead = "error"], "none", FetchFailed)
           ELSE IF cachedData # <<>>
           THEN Settle(p, [r1 EXCEPT !.cacheRead = "hit"], "none",
                       Returned(cachedData[1]))
           ELSE /\ req' = [req EXCEPT ![p] =
                      [r1 EXCEPT !.pc = "upstream", !.cacheRead = "miss"]]
                /\ UNCHANGED performance_data
    /\ UNCHANGED <<READ_ONLY_DB, now, api_cache, nreq, input, output, view>>

\* axios.get settles with resp.  The data is the processed record or the
\* synthetic bundle; setCachedData returns at once in read-only mode and
\* otherwise binds its row and queues the INSERT OR REPLACE.
UpstreamReply(p, resp) ==
    /\ req[p].pc = "upstream"
    /\ LET r == req[p]
           real == fetchRealAPIData(resp, r.districtCode, r.fetchMonth, now)
           data == computedData(resp, r.districtCode, r.fetchMonth, now)
           r2 == [r EXCEPT !.resp = Logged(resp),
                           !.upstream = IF real.ok THEN "matched" ELSE resp.kind]
       IN  IF ~data.ok
           THEN Settle(p, r2, "none", FetchFailed)
           ELSE IF ~setCachedDataWrites(READ_ONLY_DB)
           THEN Settle(p, r2, "skipped", data)
           ELSE /\ req' = [req EXCEPT ![p] =
                      [r2 EXCEPT !.pc = "cache_write", !.data = <<data.value>>,
                                 !.row = <<cacheRow(
                                     cacheKey(r.districtCode, r.fetchMonth),
                                     data.value, CacheTTLHours, now)>>]]
                /\ UNCHANGED performance_data
    /\ UNCHANGED <<READ_ONLY_DB, now, api_cache, nreq, input, output, view>>

\* The INSERT OR REPLACE of setCachedData runs; on a store error the
\* rejection is rethrown by the outer catch.
CacheWrite(p, dbOk) ==
    /\ req[p].pc = "cache_write"
    /\ IF dbOk
       THEN /\ api_cache' = cacheUpsert(api_cache, req[p].row[1])
            /\ Settle(p, req[p], "ok", Returned(req[p].data[1]))
       ELSE /\ UNCHANGED api_cache
            /\ Settle(p, req[p], "error", FetchFailed)
    /\ UNCHANGED <<READ_ONLY_DB, now, nreq, input, output, view>>

\* ------------------------------------------------------------------ routes

Free(p) == req[p].pc \in {"idle", "done"}

\* const monthYear = month || moment().format('YYYY-MM')
monthOrCurrent(month, h) == IF month = NULL THEN currentMonth(h) ELSE month

\* GET /api/district/:code/performance?month=
StartPerformance(p, code, month) ==
    /\ Free(p)
    /\ req' = [req EXCEPT ![p] =
          CallFetch([IdleReq EXCEPT !.id = nreq + 1, !.kind = "performance", !.codes = <<code>>,
                                    !.monthYear = monthOrCurrent(month, now)],
                    code, monthOrCurrent(month, now))]
    /\ nreq' = nreq + 1
    /\ UNCHANGED <<READ_ONLY_DB, now, api_cache, performance_data, input, output, view>>

\* GET /api/district/:code/history?months= : the SELECT on performance_data
\* has run (its rows are used only if getDistrictHistory throws) and
\* getDistrictHistory starts its loop from the current date.
StartHistory(p, code, months) ==
    /\ Free(p)
    /\ req' = [req EXCEPT ![p] =
          IF 0 < months
          THEN CallFetch([IdleReq EXCEPT !.id = nreq + 1, !.kind = "history", !.codes = <<code>>,
                                         !.months = months, !.startedAt = now],
                         code, monthsAgo(now, 0))
          ELSE [IdleReq EXCEPT !.id = nreq + 1, !.kind = "history", !.codes = <<code>>,
                               !.months = months, !.startedAt = now,
                               !.pc = "done", !.status = 200]]
    /\ nreq' = nreq + 1
    /\ UNCHANGED <<READ_ONLY_DB, now, api_cache, performance_data, input, output, view>>

\* The rows GET /api/comparison selects from performance_data.
comparisonStored(table, districtList, monthYear) ==
    LET Wanted(r) == /\ \E k \in 1..Len(districtList) :
                            r.district_code = districtList[k]
                     /\ r.month_year = monthYear
    IN  SelectSeq(table, Wanted)

\* GET /api/comparison?districts=&month= : the SELECT on performance_data has
\* run; stored rows are the response, otherwise getDistrictComparison starts.
StartComparison(p, districtList, month) ==
    /\ Free(p)
    /\ Len(districtList) > 0
    /\ LET monthYear == monthOrCurrent(month, now)
           rows == comparisonStored(performance_data, districtList, monthYear)
           r == [IdleReq EXCEPT !.id = nreq + 1, !.kind = "comparison", !.codes = districtList,
                                !.monthYear = monthYear]
       IN  req' = [req EXCEPT ![p] =
               IF Len(rows) > 0
               THEN [r EXCEPT !.pc = "done", !.out = rows, !.status = 200,
                              !.cacheRead = "stored"]
               ELSE CallFetch(r, districtList[1], monthYear)]
    /\ nreq' = nreq + 1
    /\ UNCHANGED <<READ_ONLY_DB, now, api_cache, performance_data, input, output, view>>

\* The api_cache table after fetchDistrictData(code, monthYear) has run for
\* each district in turn, every upstream request settling with resp and the
\* store answering.  The districts have distinct keys, so each call finds
\* its key as the table held it before the first call.
fetchEach(table, districts, monthYear, resp, h) ==
    LET Key(i) == cacheKey(districts[i].code, monthYear)
        missed == {i \in 1..Len(districts) : getCachedData(table, Key(i), h) = <<>>}
    IN  {r \in table : \A i \in missed : r.cache_key # Key(i)}
        \cup {cacheRow(Key(i),
                       computedData(resp, districts[i].code, monthYear, h).value,
                       CacheTTLHours, h) : i \in missed}

\* The job cron.schedule('0 */6 * * *') registers when the database is
\* writable: at minute 0 of every sixth hour it fetches the current month of
\* all districts.
ScheduledFetch(resp) ==
    /\ ~READ_ONLY_DB
    /\ now % 6 = 0
    /\ \A p \in Slots : Free(p)
    /\ api_cache' = fetchEach(api_cache, andhraPradeshDistricts,
                              currentMonth(now), resp, now)
    /\ nreq' = nreq + 1
    /\ UNCHANGED <<READ_ONLY_DB, now, performance_data, req, input, output, view>>

\* Three hours pass.  A handler's awaits settle within a clock step, so the
\* clock moves only between requests.
Tick ==
    /\ now + 3 <= 12 + 3 * MaxTicks
    /\ \A p \in Slots : Free(p)
    /\ now' = now + 3
    /\ UNCHANGED <<READ_ONLY_DB, api_cache, performance_data, req, nreq, input, output, view>>

\* ------------------------------------------------------ district detection

\* The lat and lng of the districts, in list order, counted in
\* ten-thousandths of a degree.
districtCoordinates ==
    << [lat |-> 146819, lng |-> 776006],
       [lat |-> 132156, lng |-> 791004],
       [lat |-> 169454, lng |-> 822382],
       [lat |-> 163067, lng |-> 804365],
       [lat |-> 161667, lng |-> 811333],
       [lat |-> 158300, lng |-> 780500],
       [lat |-> 144415, lng |-> 799864],
       [lat |-> 155067, lng |-> 793200],
       [lat |-> 182989, lng |-> 838975],
       [lat |-> 176868, lng |-> 832185],
       [lat |-> 181167, lng |-> 834167],
       [lat |-> 169454, lng |-> 812382],
       [lat |-> 144667, lng |-> 788167]>>

\* !v for a field of the request body: a number, or absent.
falsy(v) == v = Missing \/ v = Num(0)

\* Math.pow(d, 2) for a whole d, as <<millions, rest>>.
powTwo(d) ==
    LET a == (IF d < 0 THEN -d ELSE d) \div 1000
        b == (IF d < 0 THEN -d ELSE d) % 1000
        rest == ((2 * a * b) % 1000) * 1000 + b * b
    IN  <<a * a + (2 * a * b) \div 1000 + rest \div 1000000, rest % 1000000>>

\* Math.pow(district.lat - latitude, 2) + Math.pow(district.lng - longitude, 2).
\* Math.sqrt is increasing, so the handler's comparison of distances is the
\* comparison of these sums.
distance(district, latitude, longitude) ==
    LET x == powTwo(district.lat - latitude)
        y == powTwo(district.lng - longitude)
    IN  <<x[1] + y[1] + (x[2] + y[2]) \div 1000000, (x[2] + y[2]) % 1000000>>

\* distance < minDistance, minDistance starting at Infinity.
Infinity == <<"Infinity">>
lessThan(d, minDistance) ==
    \/ minDistance = Infinity
    \/ /\ minDistance # Infinity
       /\ \/ d[1] < minDistance[1]
          \/ d[1] = minDistance[1] /\ d[2] < minDistance[2]

\* The forEach of the handler from district i on: nearest is the index of
\* nearestDistrict, 0 for null.
RECURSIVE forEachDistrict(_, _, _, _, _)
forEachDistrict(i, nearest, minDistance, latitude, longitude) ==
    IF i > Len(andhraPradeshDistricts) THEN nearest
    ELSE LET d == distance(districtCoordinates[i], latitude, longitude)
         IN  IF lessThan(d, minDistance)
             THEN forEachDistrict(i + 1, i, d, latitude, longitude)
             ELSE forEachDistrict(i + 1, nearest, minDistance, latitude, longitude)

\* POST /api/detect-district with body {latitude, longitude}; id is the
\* value of Math.floor(Math.random() * 1000).
detectDistrict(latitude, longitude, id) ==
    IF falsy(latitude) \/ falsy(longitude)
    THEN [status |-> 400,
          body |-> [error |-> "Latitude and longitude required"]]
    ELSE LET nearest == forEachDistrict(1, 0, Infinity, latitude[2], longitude[2])
             district == andhraPradeshDistricts[nearest]
         IN  [status |-> 200,
              body |-> IF nearest = 0 THEN NULL
                       ELSE [id |-> id,
                             district_code |-> district.code,
                             district_name |-> district.name,
                             state_name |-> "Andhra Pradesh",
                             latitude |-> districtCoordinates[nearest].lat,
                             longitude |-> districtCoordinates[nearest].lng]]

\* ------------------------------------------------------------ compare view

\* CompareSection when it has mounted at hour h and its district list has
\* loaded: the component's state, every comparison request it has sent
\* (requests), the requests not yet answered (outstanding), and the number of
\* clicks handled.
mountedView(h) ==
    [comparisonData |-> <<>>,
     loading |-> FALSE,
     error |-> NULL,
     showComparison |-> FALSE,
     selectedDistricts |-> <<>>,
     selectedMonth |-> currentMonth(h),
     showMonthSelector |-> FALSE,
     requests |-> <<>>,
     outstanding |-> {},
     events |-> 0]

\* The rows of the response to a comparison request.
responseData(request) ==
    [k \in 1..Len(request.districts) |->
        [district_code |-> request.districts[k], month_year |-> request.month]]

FailedToFetch ==
    <<"F","a","i","l","e","d"," ","t","o"," ","f","e","t","c","h"," ",
      "c","o","m","p","a","r","i","s","o","n"," ","d","a","t","a">>

\* fetchComparisonData(districtCodes) up to its await, called by a handler of
\* the render whose state is render; next holds the updates the handler has
\* queued.  The request's month is the selectedMonth of the render.
fetchComparisonData(render, next, districtCodes) ==
    [next EXCEPT
        !.loading = TRUE,
        !.requests = Append(@, [districts |-> districtCodes,
                                month |-> render.selectedMonth]),
        !.outstanding = @ \cup {Len(next.requests) + 1}]

\* A click on a district card.
handleDistrictToggle(districtCode) ==
    /\ LET selected == view.selectedDistricts
           newSelected ==
               IF \E k \in 1..Len(selected) : selected[k] = districtCode
               THEN SelectSeq(selected, LAMBDA code : code # districtCode)
               ELSE Append(selected, districtCode)
           next == [view EXCEPT !.selectedDistricts = newSelected,
                                !.events = @ + 1]
       IN  view' = IF Len(newSelected) > 0
                   THEN fetchComparisonData(view,
                            [next EXCEPT !.showComparison = TRUE], newSelected)
                   ELSE [next EXCEPT !.showComparison = FALSE,
                                     !.comparisonData = <<>>]
    /\ UNCHANGED <<READ_ONLY_DB, now, api_cache, performance_data, req, nreq,
                   input, output>>

\* A click on the month button, which opens or closes the list of months.
toggleMonthSelector ==
    /\ view' = [view EXCEPT !.showMonthSelector = ~@, !.events = @ + 1]
    /\ UNCHANGED <<READ_ONLY_DB, now, api_cache, performance_data, req, nreq,
                   input, output>>

\* A click on a month of the open list.
handleMonthChange(monthValue) ==
    /\ view.showMonthSelector
    /\ LET next == [view EXCEPT !.selectedMonth = monthValue,
                                !.showMonthSelector = FALSE,
                                !.events = @ + 1]
       IN  view' = IF Len(view.selectedDistricts) > 0
                   THEN fetchComparisonData(view, next, view.selectedDistricts)
                   ELSE next
    /\ UNCHANGED <<READ_ONLY_DB, now, api_cache, performance_data, req, nreq,
                   input, output>>

\* A click on Clear Selection, shown while districts are selected.
clearSelection ==
    /\ Len(view.selectedDistricts) > 0
    /\ view' = [view EXCEPT !.selectedDistricts = <<>>,
                            !.showComparison = FALSE,
                            !.comparisonData = <<>>,
                            !.events = @ + 1]
    /\ UNCHANGED <<READ_ONLY_DB, now, api_cache, performance_data, req, nreq,
                   input, output>>

\* Request k is answered and fetchComparisonData resumes after its await:
\* with the rows, or in its catch; then its finally.
ComparisonSettles(k, ok) ==
    /\ k \in view.outstanding
    /\ view' = [view EXCEPT
                    !.comparisonData =
                        IF ok THEN responseData(view.requests[k]) ELSE @,
                    !.error = IF ok THEN @ ELSE FailedToFetch,
                    !.loading = FALSE,
                    !.outstanding = @ \ {k}]
    /\ UNCHANGED <<READ_ONLY_DB, now, api_cache, performance_data, req, nreq,
                   input, output>>

\* ------------------------------------------------------- model's inputs

M202312 == <<"2","0","2","3","-","1","2">>

\* Upstream records the model's responses are made of.
RowUnknown ==
    [EmptyRecord EXCEPT
        !.district_name = <<"U","n","k","n","o","w","n"," ","D","i","s","t","r","i","c","t">>,
        !.Total_Households_Worked = Num(31000),
        !.Persondays_of_Central_Liability_so_far = Num(900000),
        !.Total_Exp = Num(300000000)]

RowNTR ==
    [EmptyRecord EXCEPT
        !.district_name = <<"N","T","R">>,
        !.Total_Exp = Num(125000000),
        !.Total_Households_Worked = Num(20000),
        !.Persondays_of_Central_Liability_so_far = Num(450000)]

RowGuntur ==
    [EmptyRecord EXCEPT
        !.district_name = <<"G","U","N","T","U","R">>,
        !.Total_Exp = Garbage,
        !.Total_Households_Worked = Num(0),
        !.Persondays_of_Central_Liability_so_far = Num(7000)]

RowYSR ==
    [EmptyRecord EXCEPT
        !.district_name = <<"Y",".","S",".","R","."," ","K","a","d","a","p","a">>,
        !.Total_Exp = Num(98000000),
        !.Total_Households_Worked = Num(30001),
        !.Persondays_of_Central_Liability_so_far = Num(780026),
        !.Average_days_of_employment_provided_per_Household = Num(2600),
        !.Average_Wage_rate_per_day_per_person = Num(23150)]

RowKrishna ==
    [EmptyRecord EXCEPT
        !.district_name = <<"K","r","i","s","h","n","a">>,
        !.Total_Exp = Num(41000000),
        !.Total_Households_Worked = Num(9000),
        !.Persondays_of_Central_Liability_so_far = Num(99000)]

RowNellore ==
    [EmptyRecord EXCEPT
        !.district_name = <<"S","r","i"," ","P","o","t","t","i"," ","S","r","i","r","a","m","u","l","u"," ","N","e","l","l","o","r","e">>,
        !.Total_Exp = Num(52000000),
        !.Total_Households_Worked = Num(12000),
        !.Persondays_of_Central_Liability_so_far = Num(120000)]

RowEast ==
    [EmptyRecord EXCEPT
        !.district_name = <<"E","A","S","T"," ","G","O","D","A","V","A","R","I">>,
        !.Total_Exp = Num(77000000),
        !.Total_Households_Worked = Num(25000),
        !.Persondays_of_Central_Liability_so_far = Num(400000)]

\* A row of NTR without any of the numeric fields.
RowBlank == [EmptyRecord EXCEPT !.district_name = <<"N","T","R"," ","(","n","e","w",")">>]

\* A row of Guntur whose numeric fields hold text that is no number.
RowGarbled ==
    [district_name |-> <<"G","u","n","t","u","r">>,
     Persondays_of_Central_Liability_so_far |-> Garbage,
     Total_Households_Worked |-> Garbage,
     Total_Exp |-> Garbage,
     Average_days_of_employment_provided_per_Household |-> Garbage,
     Average_Wage_rate_per_day_per_person |-> Garbage,
     Women_Persondays |-> Garbage,
     SC_persondays |-> Garbage,
     ST_persondays |-> Garbage,
     Number_of_Completed_Works |-> Garbage,
     Number_of_Ongoing_Works |-> Garbage,
     Total_Individuals_Worked |-> Garbage,
     Total_No_of_JobCards_issued |-> Garbage,
     Total_No_of_HHs_completed_100_Days_of_Wage_Employment |-> Garbage,
     Differently_abled_persons_worked |-> Garbage,
     percentage_payments_gererated_within_15_days |-> Garbage,
     fin_year |-> NULL,
     month |-> NULL]

FullRecords ==
    <<RowUnknown, RowNTR, RowGuntur, RowYSR, RowKrishna, RowNellore, RowEast>>

\* The four upstream outcomes: a network or HTTP error, a response without a
\* records list, a list with no row of the district, a list with rows of it.
Responses ==
    {RespError, RespNoRecords, RespRecords(<<RowUnknown>>), RespRecords(FullRecords)}

\* The upstream is down or answers with the records of the whole state.
DownOrUp == {RespError, RespRecords(FullRecords)}

ReqCodes == {AP004}

\* What a one-month history request left in the database at 09:00, the
\* upstream being down.
PriorBundle == generateMockData(AP004, M202312, 9)
PriorCache == {cacheRow(cacheKey(AP004, M202312), PriorBundle, CacheTTLHours, 9)}
PriorPerf == historyPerfRows(<<historyEntry(M202312, PriorBundle)>>)

\* ---------------------------------------------------------- specification

NoInput == [kind |-> "none"]

\* The server at 2023-12-31T12:00:00Z, its database empty or as an earlier
\* run left it.
InitServer ==
    /\ now = 12
    /\ \E prior \in BOOLEAN :
          /\ api_cache = IF prior THEN PriorCache ELSE {}
          /\ performance_data = IF prior THEN PriorPerf ELSE <<>>
    /\ req = [p \in Slots |-> IdleReq]
    /\ nreq = 0
    /\ input = NoInput
    /\ output = <<>>
    /\ view = mountedView(now)

\* Either deployment mode.
Init ==
    /\ READ_ONLY_DB \in BOOLEAN
    /\ InitServer

\* The slot a new request is served in: one never used if there is one,
\* else one whose request has been answered; 0 when both are busy.
NextSlot ==
    LET idle == {p \in Slots : req[p].pc = "idle"}
        free == IF idle # {} THEN idle ELSE {p \in Slots : req[p].pc = "done"}
    IN  IF free = {} THEN 0 ELSE CHOOSE p \in free : \A q \in free : p <= q

CanStart == nreq < MaxRequests /\ NextSlot # 0

\* Performance requests for the current month or for December 2023, one
\* after another or two overlapping, and the clock up to the last request.
Next ==
    \/ nreq < MaxRequests /\ Tick
    \/ \E code \in ReqCodes, month \in {NULL, M202312} :
          CanStart /\ StartPerformance(NextSlot, code, month)
    \/ \E p \in Slots, dbOk \in BOOLEAN : CacheRead(p, dbOk)
    \/ \E p \in Slots, resp \in DownOrUp : UpstreamReply(p, resp)
    \/ \E p \in Slots, dbOk \in BOOLEAN : CacheWrite(p, dbOk)

Spec == Init /\ [][Next]_vars

\* One history request for 1..MaxMonths months, started on 2023-12-31 or on
\* 2024-01-01.
NextHistory ==
    \/ nreq = 0 /\ Tick
    \/ \E code \in ReqCodes, months \in 1..MaxMonths :
          nreq = 0 /\ StartHistory(1, code, months)
    \/ \E dbOk \in BOOLEAN : CacheRead(1, dbOk)
    \/ \E resp \in Responses : UpstreamReply(1, resp)
    \/ \E dbOk \in BOOLEAN : CacheWrite(1, dbOk)

SpecHistory == Init /\ [][NextHistory]_vars

FiveCodes == <<AP004, AP013, AP005, AP007, AP003>>

ReqLists == {<<AP004>>, <<AP013, AP004>>, FiveCodes}

\* One comparison request for the current month.
NextComparison ==
    \/ \E districtList \in ReqLists :
          nreq = 0 /\ StartComparison(1, districtList, NULL)
    \/ \E dbOk \in BOOLEAN : CacheRead(1, dbOk)
    \/ \E resp \in DownOrUp : UpstreamReply(1, resp)
    \/ \E dbOk \in BOOLEAN : CacheWrite(1, dbOk)

SpecComparison == Init /\ [][NextComparison]_vars

\* Requests of every route served one after another and the scheduled job,
\* at noon.
NextServer ==
    \/ \E resp \in DownOrUp : nreq < MaxRequests /\ ScheduledFetch(resp)
    \/ \E code \in ReqCodes :
          nreq < MaxRequests /\ StartPerformance(1, code, NULL)
    \/ \E code \in ReqCodes, months \in {1, 2} :
          nreq < MaxRequests /\ StartHistory(1, code, months)
    \/ \E districtList \in ReqLists \ {FiveCodes} :
          nreq < MaxRequests /\ StartComparison(1, districtList, NULL)
    \/ \E dbOk \in BOOLEAN : CacheRead(1, dbOk)
    \/ \E resp \in DownOrUp : UpstreamReply(1, resp)
    \/ \E dbOk \in BOOLEAN : CacheWrite(1, dbOk)

SpecServer == Init /\ [][NextServer]_vars

M202403 == <<"2","0","2","4","-","0","3">>

\* A code that is none of the 13 districts'.
AP099 == <<"A","P","0","9","9">>

\* The upstream is down or answers with the single row of NTR.
DownOrNTR == {RespError, RespRecords(<<RowNTR>>)}

\* Performance requests for March 2024, for a district or for a code that is
\* no district's, served one after another.
NextScenario ==
    \/ \E code \in {AP004, AP099} :
          nreq < MaxRequests /\ StartPerformance(1, code, M202403)
    \/ \E dbOk \in BOOLEAN : CacheRead(1, dbOk)
    \/ \E resp \in DownOrNTR : UpstreamReply(1, resp)
    \/ \E dbOk \in BOOLEAN : CacheWrite(1, dbOk)

SpecScenario == Init /\ [][NextScenario]_vars

\* The compare view alone, on 2023-12-31 at noon.
InitCompare ==
    /\ READ_ONLY_DB = FALSE
    /\ now = 12
    /\ api_cache = {}
    /\ performance_data = <<>>
    /\ req = [p \in Slots |-> IdleReq]
    /\ nreq = 0
    /\ input = NoInput
    /\ output = <<>>
    /\ view = mountedView(now)

\* The districts clicked and the months picked: two of the 24 listed.
ViewCodes == {AP004, AP013}
MonthOptions == {monthsAgo(12, 0), monthsAgo(12, 1)}

\* Up to MaxEvents clicks of any kind, the requests answered in any order.
NextView ==
    \/ \E code \in ViewCodes :
          view.events < MaxEvents /\ handleDistrictToggle(code)
    \/ view.events < MaxEvents /\ toggleMonthSelector
    \/ \E monthValue \in MonthOptions :
          view.events < MaxEvents /\ handleMonthChange(monthValue)
    \/ view.events < MaxEvents /\ clearSelection
    \/ \E k \in 1..MaxEvents, ok \in BOOLEAN : ComparisonSettles(k, ok)

SpecView == InitCompare /\ [][NextView]_vars

\* Clicks on district cards only.
NextToggles ==
    \/ \E code \in ViewCodes :
          view.events < MaxEvents /\ handleDistrictToggle(code)
    \/ \E k \in 1..MaxEvents, ok \in BOOLEAN : ComparisonSettles(k, ok)

SpecToggles == InitCompare /\ [][NextToggles]_vars

\* ------------------------------------------------- functions on their own

\* district_name values of upstream rows, the empty one among them.
Labels ==
    {<<>>,
     <<"Y",".","S",".","R","."," ","K","a","d","a","p","a">>,
     <<"U","n","k","n","o","w","n"," ","D","i","s","t","r","i","c","t">>,
     <<"N","T","R">>,
     <<"G","u","n","t","u","r">>,
     <<"E","A","S","T"," ","G","O","D","A","V","A","R","I">>,
     <<"W","e","s","t",".","G","o","d","a","v","a","r","i">>,
     <<"W","e","s","t","G","o","d","a","v","a","r","i">>,
     <<"S","r","i"," ","P","o","t","t","i"," ","S","r","i","r","a","m","u","l","u"," ","N","e","l","l","o","r","e">>,
     <<"G","o","d","a","v","a","r","i">>,
     <<"K","a","d","a","p","a">>,
     <<"Y"," ","S"," ","R">>,
     <<"V","i","s","a","k","h","a","p","a","t","n","a","m"," ","R","u","r","a","l">>,
     <<"A","n","a","n","t","a","p","u","r">>,
     <<"K","r","i","s","h","n","a">>,
     <<"K","u","r","n","o","o","l"," ","(","U","r","b","a","n",")">>,
     <<"E","a","s","t"," "," ","G","o","d","a","v","a","r","i">>}

\* Household counts and whole person-days-per-household ratios on both
\* sides of every threshold of the scorer.
HouseholdSamples == {0, 1, 5000, 5001, 10000, 10001, 20000, 20001, 30000, 30001}
RatioSamples == {0, 10, 11, 15, 16, 20, 21, 25, 26}

\* The hours at which the generator is called.
CallHours == {9, 12, 15}

Period2023(m) == <<"2","0","2","3","-">> \o pad2(m)

RowOf(label, households, personDays) ==
    [EmptyRecord EXCEPT
        !.district_name = label,
        !.Total_Households_Worked = Num(households),
        !.Persondays_of_Central_Liability_so_far = Num(personDays)]

\* Upstream record lists of one to MaxRecords rows.
SampleRows == {RowNTR, RowGuntur, RowYSR, RowKrishna, RowBlank, RowGarbled}
RecordLists == UNION {[1..n -> SampleRows] : n \in 1..MaxRecords}

\* Person-days beside a whole multiple of the households.
PersonDayOffsets == {-1, 0, 1}

\* The years of the periods asked for, and the period of a year and month.
PeriodYears == {2023, 2024}
PeriodOf(y, m) == pad4(y) \o <<"-">> \o pad2(m)

\* Body fields of a detection request: absent, zero, the coordinates of
\* Nellore, Guntur and East and West Godavari, the longitude half-way
\* between the two Godavari districts, and 17 degrees north.
BodyLatitudes == {Missing} \cup {Num(n) : n \in {0, 144415, 163067, 169454, 170000}}
BodyLongitudes ==
    {Missing} \cup {Num(n) : n \in {0, 799864, 804365, 812382, 817382, 822382}}
RandomIds == {0, 999}

\* A code that is none of the 13 and differs from them at position 2.
AP104 == <<"A","P","1","0","4">>

\* Arguments: a row label and a district; two scorer arguments that differ
\* in the households or in the ratio only; a district, a period and two
\* hours.
Inputs ==
    [kind : {"match"}, label : Labels, code : DistrictCodes]
    \cup {i \in [kind : {"score"}, h1 : HouseholdSamples, h2 : HouseholdSamples,
                  n1 : RatioSamples, n2 : RatioSamples] :
            \/ i.h1 <= i.h2 /\ i.n1 = i.n2
            \/ i.h1 = i.h2 /\ i.n1 <= i.n2}
    \cup [kind : {"generate"}, code : {AP004, AP013}, m : 1..12,
          t1 : CallHours, t2 : CallHours]
    \cup [kind : {"rows"}, records : RecordLists, code : {AP004, AP013}]
    \cup [kind : {"point"}, h : HouseholdSamples \cup {-5}, n : RatioSamples,
          d : PersonDayOffsets]
    \cup [kind : {"period"}, y : PeriodYears, m : 1..12]
    \cup [kind : {"locate"}, latitude : BodyLatitudes, longitude : BodyLongitudes]
    \cup [kind : {"seeds"}, c1 : {AP004}, c2 : {AP004, AP013, AP104},
          y1 : {2023}, y2 : PeriodYears, m1 : 1..12, m2 : 1..12]

InitFunctions ==
    /\ READ_ONLY_DB = FALSE
    /\ now = 12
    /\ api_cache = {}
    /\ performance_data = <<>>
    /\ req = [p \in Slots |-> IdleReq]
    /\ nreq = 0
    /\ input \in Inputs
    /\ output = <<>>
    /\ view = mountedView(now)

\* The filter predicate on a row, and processAPIData on a list of that row.
ApplyMatcher ==
    /\ input.kind = "match" /\ output = <<>>
    /\ LET row == RowOf(input.label, 20000, 450000)
       IN  output' = <<[matches |-> recordMatches(row, input.code),
                        processed |-> processAPIData(<<row>>, input.code,
                                                     M202312, now)]>>
    /\ UNCHANGED <<READ_ONLY_DB, now, api_cache, performance_data, req, nreq, input, view>>

\* The scorer on both arguments, and the bundle fetchDistrictData computes
\* from an upstream row holding the first.
ApplyScorer ==
    /\ input.kind = "score" /\ output = <<>>
    /\ LET row == RowOf(<<"G","u","n","t","u","r">>, input.h1, input.h1 * input.n1)
       IN  output' =
             <<[s1 |-> calculatePerformanceScore(input.h1, input.h1 * input.n1),
                s2 |-> calculatePerformanceScore(input.h2, input.h2 * input.n2),
                bundle |-> computedData(RespRecords(<<row>>), AP004,
                                        M202312, now).value]>>
    /\ UNCHANGED <<READ_ONLY_DB, now, api_cache, performance_data, req, nreq, input, view>>

\* Two calls of the generator with the same arguments at hours t1 and t2.
ApplyGenerator ==
    /\ input.kind = "generate" /\ output = <<>>
    /\ output' = <<[first |-> generateMockData(input.code, Period2023(input.m),
                                                input.t1),
                     second |-> generateMockData(input.code, Period2023(input.m),
                                                 input.t2)]>>
    /\ UNCHANGED <<READ_ONLY_DB, now, api_cache, performance_data, req, nreq, input, view>>

\* The scorer on h households and h * n + d person-days.
ApplyScorerAt ==
    /\ input.kind = "point" /\ output = <<>>
    /\ output' = <<[score |-> calculatePerformanceScore(input.h,
                                   input.h * input.n + input.d)]>>
    /\ UNCHANGED <<READ_ONLY_DB, now, api_cache, performance_data, req, nreq, input, view>>

\* processAPIData on a list of records.
ApplyProcess ==
    /\ input.kind = "rows" /\ output = <<>>
    /\ output' = <<processAPIData(input.records, input.code, M202312, now)>>
    /\ UNCHANGED <<READ_ONLY_DB, now, api_cache, performance_data, req, nreq, input, view>>

\* The upstream query of fetchRealAPIData for a period.
ApplyParams ==
    /\ input.kind = "period" /\ output = <<>>
    /\ output' = <<params(PeriodOf(input.y, input.m))>>
    /\ UNCHANGED <<READ_ONLY_DB, now, api_cache, performance_data, req, nreq, input, view>>

\* A detection request.
ApplyDetect ==
    /\ input.kind = "locate" /\ output = <<>>
    /\ \E id \in RandomIds :
          output' = <<detectDistrict(input.latitude, input.longitude, id)>>
    /\ UNCHANGED <<READ_ONLY_DB, now, api_cache, performance_data, req, nreq, input, view>>

\* The generator on two pairs of a district and a period.
ApplyGeneratorTwice ==
    /\ input.kind = "seeds" /\ output = <<>>
    /\ output' = <<[first |-> generateMockData(input.c1,
                                 PeriodOf(input.y1, input.m1), now),
                     second |-> generateMockData(input.c2,
                                  PeriodOf(input.y2, input.m2), now)]>>
    /\ UNCHANGED <<READ_ONLY_DB, now, api_cache, performance_data, req, nreq, input, view>>

NextFunctions ==
    \/ ApplyMatcher \/ ApplyScorer \/ ApplyGenerator \/ ApplyScorerAt \/ ApplyProcess
    \/ ApplyParams \/ ApplyDetect \/ ApplyGeneratorTwice

SpecFunctions == InitFunctions /\ [][NextFunctions]_vars

\* -------------------------------------------------------------- properties

\* Every fetchDistrictData call of the requests being served or last served.
AllAttempts ==
    UNION {{req[p].attempts[k] : k \in 1..Len(req[p].attempts)} : p \in Slots}

\* Whether some row of an upstream response matches the district.
HasMatch(resp, districtCode) ==
    /\ resp.kind = "records"
    /\ \E k \in 1..Len(resp.names) :
          recordMatches([district_name |-> resp.names[k]], districtCode)

\* C1: on a cache miss fetchDistrictData never raises because of the
\* upstream.  Whenever the store does not fail, a call that missed the cache
\* returns a bundle: after a network or HTTP error, a response without a
\* records list or a list with no row of the district it is the synthetic
\* bundle of that code and period, tagged as synthetic; after a list with a
\* matching row it is tagged as upstream.
C1_FallbackNeverRaises ==
    \A a \in AllAttempts :
        a.cacheRead = "miss" /\ a.write # "error" =>
            /\ a.ok
            /\ ~HasMatch(a.resp, a.districtCode) =>
                  /\ a.value[1].data_source = SourceMock
                  /\ a.value[1].district_code = a.districtCode
                  /\ a.value[1].month_year = a.monthYear
                  /\ a.value[1].total_households =
                        generateMockData(a.districtCode, a.monthYear,
                                         a.readAt).total_households
            /\ HasMatch(a.resp, a.districtCode) =>
                  /\ a.value[1].data_source = SourceUpstream
                  /\ a.value[1].district_code = a.districtCode
                  /\ a.value[1].month_year = a.monthYear

\* A call that missed the cache has returned the synthetic bundle after each
\* kind of upstream failure, and another an upstream bundle.
C1_Witness ==
    /\ \E a \in AllAttempts :
          /\ a.cacheRead = "miss" /\ a.resp.kind = "records"
          /\ ~HasMatch(a.resp, a.districtCode)
          /\ a.ok /\ a.value[1].data_source = SourceMock
    /\ \E a \in AllAttempts :
          /\ a.cacheRead = "miss" /\ HasMatch(a.resp, a.districtCode)
          /\ a.ok /\ a.value[1].data_source = SourceUpstream

SameKey(a, b) == a.districtCode = b.districtCode /\ a.monthYear = b.monthYear

\* C2 as stated: of two calls for one key that both return, the second made
\* less than 6 hours after the first, which missed the cache, the second
\* makes no upstream call and returns the bundle of the first -- in either
\* mode, the calls one after the other or overlapping.
C2_AsStated ==
    \A a \in AllAttempts, b \in AllAttempts :
        /\ a.id < b.id /\ SameKey(a, b)
        /\ a.cacheRead = "miss" /\ a.ok /\ b.ok
        /\ b.readAt < a.readAt + CacheTTLHours
        => /\ b.cacheRead = "hit"
           /\ b.value = a.value

\* The row a call that missed the cache and stored its bundle wrote.
RowWritten(a) ==
    cacheRow(cacheKey(a.districtCode, a.monthYear), a.value[1],
             CacheTTLHours, a.readAt)

\* C2: with the database writable, once a call that missed the cache has
\* stored its bundle and returned, a call for the same key that starts
\* afterwards and reads the cache less than 6 hours after that write, the
\* row of the first not having been replaced by another call, makes no
\* upstream call and returns the identical bundle.
C2_IdempotentCaching ==
    \A a \in AllAttempts, b \in AllAttempts :
        /\ ~READ_ONLY_DB
        /\ a.id # b.id /\ SameKey(a, b)
        /\ a.cacheRead = "miss" /\ a.write = "ok"
        /\ a.id \in b.doneBefore
        /\ b.readAt < a.readAt + CacheTTLHours
        /\ b.cacheRead # "error"
        /\ RowWritten(a) \in api_cache
        => /\ b.cacheRead = "hit"
           /\ b.upstream = "none"
           /\ b.ok /\ b.value = a.value

\* A second call three hours after the first stored its bundle, answered
\* from the cache.
C2_Witness ==
    \E a \in AllAttempts, b \in AllAttempts :
        /\ ~READ_ONLY_DB
        /\ a.id # b.id /\ SameKey(a, b)
        /\ a.cacheRead = "miss" /\ a.write = "ok"
        /\ a.id \in b.doneBefore
        /\ b.readAt = a.readAt + 3
        /\ b.cacheRead = "hit" /\ b.value = a.value

\* C3 as stated: an entry read more than 6 hours after setCachedData wrote
\* it is absent.  The bundle of a hit carries the hour it was written at in
\* last_updated.
C3_AsStated ==
    \A a \in AllAttempts :
        a.cacheRead = "hit" =>
            \A w \in 0..now :
                a.value[1].last_updated = toISOString(w)
                    => ~(a.readAt > w + CacheTTLHours)

\* The number of a YYYY-MM period, counting months.
PeriodNumber(monthYear) ==
    12 * parseDigits(SubSeq(monthYear, 1, 4)) + parseDigits(SubSeq(monthYear, 6, 7))

\* Whether a history entry carries the metrics of a bundle.
EntryOf(entry, bundle) ==
    /\ entry.total_households = bundle.total_households
    /\ entry.total_person_days = bundle.total_person_days
    /\ entry.total_amount_spent = bundle.total_amount_spent
    /\ entry.avg_days_per_household = bundle.avg_days_per_household
    /\ entry.avg_amount_per_household = bundle.avg_amount_per_household
    /\ entry.performance_score = bundle.performance_score

\* C4: getDistrictHistory(code, months) with months >= 1 returns exactly
\* `months` entries for consecutive periods in ascending order, the last one
\* the month the call was made in, whatever each month's fetch did: the entry
\* of a month whose fetch failed carries the synthetic bundle of that month,
\* and every other entry the bundle fetched for its month.
C4_HistoryComplete ==
    \A p \in Slots :
        LET r == req[p]
            n == r.months
        IN  r.kind = "history" /\ r.pc = "done" /\ n >= 1 =>
              /\ r.status = 200
              /\ Len(r.out) = n
              /\ Len(r.attempts) = n
              /\ r.out[n].month_year = currentMonth(r.startedAt)
              /\ \A k \in 1..(n - 1) :
                    PeriodNumber(r.out[k + 1].month_year)
                        = PeriodNumber(r.out[k].month_year) + 1
              /\ \A k \in 1..n :
                    LET a == r.attempts[n + 1 - k]
                    IN  /\ a.monthYear = r.out[k].month_year
                        /\ a.districtCode = r.codes[1]
                        /\ IF a.ok
                           THEN /\ EntryOf(r.out[k], a.value[1])
                                /\ r.out[k].data_source = a.value[1].data_source
                           ELSE EntryOf(r.out[k],
                                        generateMockData(r.codes[1],
                                            r.out[k].month_year, a.readAt))

\* A history of December 2023 and January 2024 asked for in January, one
\* month's fetch having failed on the store and the other having returned
\* an upstream bundle.
C4_Witness ==
    \E p \in Slots :
        LET r == req[p]
        IN  /\ r.kind = "history" /\ r.pc = "done" /\ r.months = 2
            /\ r.out[1].month_year = M202312
            /\ PeriodNumber(r.out[2].month_year) = PeriodNumber(M202312) + 1
            /\ \E k \in 1..2 : ~r.attempts[k].ok
            /\ \E k \in 1..2 : /\ r.attempts[k].ok
                                 /\ r.attempts[k].value[1].data_source = SourceUpstream

\* C5 as stated: two calls of generateMockData with the same district and
\* period, made at any two hours, return bundles identical in every field.
C5_AsStated ==
    input.kind = "generate" /\ output # <<>> =>
        output[1].first = output[1].second

\* C6: the bundle fetchDistrictData computes from an upstream row, and the
\* synthetic bundle, have a performance_score from 0 to 100; and
\* calculatePerformanceScore does not decrease when total_households grows
\* at a fixed ratio of person-days to households, nor when that ratio grows
\* at fixed total_households.
C6_ScoreBoundedMonotone ==
    /\ input.kind = "score" /\ output # <<>> =>
          /\ output[1].bundle.data_source = SourceUpstream
          /\ output[1].bundle.total_households = input.h1
          /\ output[1].bundle.performance_score \in 0..100
          /\ output[1].s1 \in 0..100 /\ output[1].s2 \in 0..100
          /\ (input.n1 = input.n2 /\ input.h1 <= input.h2)
                => output[1].s1 <= output[1].s2
          /\ (input.h1 = input.h2 /\ input.n1 <= input.n2)
                => output[1].s1 <= output[1].s2
    /\ input.kind = "generate" /\ output # <<>> =>
          /\ output[1].first.data_source = SourceMock
          /\ output[1].first.performance_score \in 0..100

\* The scorer applied below and above a households threshold at one ratio,
\* the higher score at the larger count.
C6_Witness ==
    /\ input.kind = "score" /\ output # <<>>
    /\ input.n1 = input.n2 /\ input.h1 = 20000 /\ input.h2 = 20001
    /\ output[1].s1 < output[1].s2
    /\ output[1].bundle.performance_score = output[1].s1

\* Whether text contains part as a substring.
Contains(text, part) ==
    \E i \in 1..(Len(text) + 1) :
        /\ i + Len(part) - 1 <= Len(text)
        /\ SubSeq(text, i, i + Len(part) - 1) = part

\* The candidates of a district: its lower-cased name, the name without its
\* whitespace, the name with '.' for whitespace, and its aliases.
Candidates(district) ==
    LET lower == toLowerCase(district.name)
        NotSpace(c) == c # " "
    IN  {lower, SelectSeq(lower, NotSpace),
         [i \in 1..Len(lower) |-> IF lower[i] = " " THEN "." ELSE lower[i]]}
        \cup {aliases(district.code)[k] : k \in 1..Len(aliases(district.code))}

YSRKadapa == <<"Y",".","S",".","R","."," ","K","a","d","a","p","a">>
UnknownDistrict == <<"U","n","k","n","o","w","n"," ","D","i","s","t","r","i","c","t">>

\* C10: an upstream row matches a district exactly when its lower-cased
\* district_name contains one of the district's candidates.  The label
\* "Y.S.R. Kadapa" matches AP013; "Unknown District" matches none of the 13
\* districts, and processAPIData on a list of that row alone throws.
C10_NameMatcher ==
    input.kind = "match" /\ output # <<>> =>
        /\ output[1].matches
              <=> \E c \in Candidates(findDistrict(input.code)) :
                     Contains(toLowerCase(input.label), c)
        /\ (input.label = YSRKadapa /\ input.code = AP013) => output[1].matches
        /\ input.label = UnknownDistrict =>
              ~output[1].matches /\ ~output[1].processed.ok
        /\ output[1].processed.ok <=> output[1].matches

\* The matcher applied to "Y.S.R. Kadapa" and AP013, with a match.
C10_Witness ==
    /\ input.kind = "match" /\ output # <<>>
    /\ input.label = YSRKadapa /\ input.code = AP013
    /\ output[1].matches /\ output[1].processed.ok

\* A comparison of the five codes that went through getDistrictComparison
\* with the store answering throughout and the upstream request failing for
\* exactly two of the codes.
TwoOfFiveFailed(r) ==
    /\ r.kind = "comparison" /\ r.pc = "done" /\ r.codes = FiveCodes
    /\ Len(r.attempts) = 5
    /\ \A k \in 1..5 : /\ r.attempts[k].cacheRead # "error"
                        /\ r.attempts[k].write # "error"
    /\ Cardinality({k \in 1..5 : /\ r.attempts[k].cacheRead = "miss"
                                  /\ r.attempts[k].resp.kind = "error"}) = 2

\* C7 as stated: then exactly 3 rows are returned, those of the other codes.
C7_AsStated ==
    \A p \in Slots : TwoOfFiveFailed(req[p]) => Len(req[p].out) = 3

\* Whether a comparison row carries the metrics of a bundle.
RowOfBundle(row, bundle) ==
    /\ row.district_name = bundle.district_name
    /\ row.total_households = bundle.total_households
    /\ row.total_person_days = bundle.total_person_days
    /\ row.total_amount_spent = bundle.total_amount_spent
    /\ row.avg_days_per_household = bundle.avg_days_per_household
    /\ row.performance_score = bundle.performance_score

\* C7: when getDistrictComparison is called with 5 codes, the store
\* answering, and the upstream fails for 2 of them, it raises no error and
\* returns exactly 5 rows in input order; the rows of the 2 codes carry the
\* synthetic bundles of those codes.
C7_ComparisonWithFallback ==
    \A p \in Slots :
        LET r == req[p]
        IN  TwoOfFiveFailed(r) =>
              /\ r.status = 200
              /\ Len(r.out) = 5
              /\ \A k \in 1..5 :
                    /\ r.out[k].district_code = FiveCodes[k]
                    /\ (r.attempts[k].cacheRead = "miss"
                          /\ r.attempts[k].resp.kind = "error")
                       => RowOfBundle(r.out[k],
                              generateMockData(FiveCodes[k], r.monthYear,
                                               r.attempts[k].readAt))

\* Such a comparison, the other three codes answered from upstream rows.
C7_Witness ==
    \E p \in Slots :
        /\ TwoOfFiveFailed(req[p])
        /\ Cardinality({k \in 1..5 :
                /\ req[p].attempts[k].ok
                /\ req[p].attempts[k].value[1].data_source = SourceUpstream}) = 3

\* The positions of the calls that returned, in order.
RECURSIVE ReturnedAt(_, _)
ReturnedAt(attempts, k) ==
    IF k > Len(attempts) THEN <<>>
    ELSE (IF attempts[k].ok THEN <<k>> ELSE <<>>) \o ReturnedAt(attempts, k + 1)

\* C8: getDistrictComparison(codes, period) calls fetchDistrictData once per
\* code in input order; its result has one row, carrying the code, for each
\* call that returned, in order, and none for a call that raised; when every
\* call raised the result is empty, and no error is raised.
C8_ComparisonPerCode ==
    \A p \in Slots :
        LET r == req[p]
            kept == ReturnedAt(r.attempts, 1)
        IN  r.kind = "comparison" /\ r.pc = "done" /\ r.cacheRead # "stored" =>
              /\ r.status = 200
              /\ Len(r.attempts) = Len(r.codes)
              /\ \A k \in 1..Len(r.codes) :
                    /\ r.attempts[k].districtCode = r.codes[k]
                    /\ r.attempts[k].monthYear = r.monthYear
              /\ Len(r.out) = Len(kept)
              /\ \A j \in 1..Len(kept) :
                    /\ r.out[j].district_code = r.codes[kept[j]]
                    /\ RowOfBundle(r.out[j], r.attempts[kept[j]].value[1])
              /\ (\A k \in 1..Len(r.codes) : ~r.attempts[k].ok) => r.out = <<>>

\* A comparison of five codes in which a call raised after another had
\* returned and before a third did.
C8_Witness ==
    \E p \in Slots :
        LET r == req[p]
        IN  /\ r.kind = "comparison" /\ r.pc = "done" /\ r.codes = FiveCodes
            /\ Len(r.attempts) = 5
            /\ r.attempts[1].ok /\ ~r.attempts[2].ok /\ r.attempts[3].ok
            /\ Len(r.out) < 5

\* In read-only mode: a call that reached setCachedData returned without
\* writing, and a call answered from the cache returned the data of a row of
\* the table.
ReadOnlyCalls ==
    \A a \in AllAttempts :
        /\ (a.cacheRead = "miss") => (a.write = "skipped" /\ a.ok)
        /\ (a.cacheRead = "hit") =>
              \E row \in api_cache :
                  /\ row.cache_key = cacheKey(a.districtCode, a.monthYear)
                  /\ JSONparse(row.data) = a.value[1]

\* C9: with READ_ONLY_DB set no step of a performance, history or comparison
\* request changes api_cache or performance_data, and the scheduled job does
\* not run; setCachedData returns without raising or writing, and a read
\* from the cache returns data of a row that was there from the start.
C9_ReadOnlyMode ==
    [][READ_ONLY_DB =>
          /\ api_cache' = api_cache
          /\ performance_data' = performance_data
          /\ ReadOnlyCalls']_vars

\* Read-only mode after a performance request that reached setCachedData
\* and a history request answered in part from the cache.
C9_Witness ==
    /\ READ_ONLY_DB /\ nreq = 2 /\ api_cache # {}
    /\ req[1].kind = "history" /\ req[1].pc = "done" /\ req[1].months = 2
    /\ \E k \in 1..2 : req[1].attempts[k].cacheRead = "hit"
    /\ \E k \in 1..2 : req[1].attempts[k].write = "skipped"

\* A call for AP004 and 2024-03 that missed the cache, was answered by the
\* upstream with the single row of NTR, and whose cache write did not fail.
NTRScenario(a) ==
    /\ a.districtCode = AP004 /\ a.monthYear = M202403
    /\ a.cacheRead = "miss"
    /\ a.resp = Logged(RespRecords(<<RowNTR>>))
    /\ a.write \in {"ok", "skipped"}

\* C11 as stated: in that scenario the bundle has total_amount_spent 12.5
\* (in units of 10^-7), is tagged as upstream, and its score, from 85 to
\* 100, is 60 + 15 for 20000 households + 20 for 22.5 days per household.
C11_AsStated ==
    \A a \in AllAttempts :
        NTRScenario(a) =>
            /\ a.ok
            /\ a.value[1].total_amount_spent = 125000000
            /\ a.value[1].data_source = SourceUpstream
            /\ a.value[1].performance_score \in 85..100
            /\ a.value[1].performance_score = 60 + 15 + 20

\* C11: in that scenario the bundle has total_amount_spent 12.5, is tagged
\* as upstream, and its score is 85: 60, plus 10 for 20000 households (not
\* above 20000), plus 15 for 22.5 days per household (above 20, not above
\* 25).
C11_EndToEnd ==
    \A a \in AllAttempts :
        NTRScenario(a) =>
            /\ a.ok
            /\ a.value[1].district_code = AP004
            /\ a.value[1].month_year = M202403
            /\ a.value[1].total_households = 20000
            /\ a.value[1].total_person_days = 450000
            /\ a.value[1].total_amount_spent = 125000000
            /\ a.value[1].data_source = SourceUpstream
            /\ a.value[1].performance_score \in 85..100
            /\ a.value[1].performance_score = 60 + 10 + 15
            /\ calculatePerformanceScore(20000, 0) = 60 + 10
            /\ calculatePerformanceScore(2, 45) = 60 + 15

\* The scenario served with the database writable and empty at the start.
C11_Witness ==
    /\ ~READ_ONLY_DB
    /\ \E a \in AllAttempts :
          /\ NTRScenario(a) /\ a.id = 1 /\ a.write = "ok"
          /\ a.value[1].performance_score = 85
    /\ \E row \in api_cache : row.cache_key = cacheKey(AP004, M202403)

\* C12 as stated: a call whose cache read failed goes on to the upstream as
\* on a miss and returns a bundle, and a call whose cache write failed
\* returns the bundle it computed.
C12_AsStated ==
    \A a \in AllAttempts :
        /\ a.cacheRead = "error" => (a.upstream # "none" /\ a.ok)
        /\ a.write = "error" => a.ok

\* C13 as stated: every call that has ended went INIT, CACHE_CHECK and then
\* either CACHE_HIT, with no upstream call and no cache write, or CACHE_MISS
\* and UPSTREAM_FETCH, and ended in DONE with a bundle: none ended with an
\* error for its caller.
C13_AsStated ==
    \A a \in AllAttempts :
        /\ a.cacheRead = "hit" => (a.upstream = "none" /\ a.write = "none")
        /\ a.cacheRead = "miss" => a.upstream # "none"
        /\ a.ok

\* C14 as stated: a performance request for a code that is no district's is
\* answered as rejected, without a bundle, and leaves no api_cache entry and
\* no performance_data row of that code.
C14_AsStated ==
    \A p \in Slots :
        LET r == req[p]
        IN  r.kind = "performance" /\ r.pc = "done"
               /\ r.codes[1] \notin DistrictCodes =>
              /\ r.status # 200
              /\ r.out = <<>>
              /\ \A row \in api_cache :
                    row.cache_key # cacheKey(r.codes[1], r.monthYear)
              /\ \A k \in 1..Len(performance_data) :
                    performance_data[k].district_code # r.codes[1]

\* C15 as stated: with the database writable, performance_data never holds
\* two rows with the same district_code and month_year.
C15_AsStated ==
    ~READ_ONLY_DB =>
        \A i \in 1..Len(performance_data), j \in 1..Len(performance_data) :
            i < j => ~(/\ performance_data[i].district_code
                             = performance_data[j].district_code
                       /\ performance_data[i].month_year
                             = performance_data[j].month_year)

\* Whether pd / h, h > 0, is greater than the whole number t.
AvgAbove(pd, h, t) == (pd \div h > t) \/ (pd \div h = t /\ pd % h # 0)

\* The reference score min(100, 60 + H + W).
ReferenceScore(h, pd) ==
    LET H == CASE h > 30000 -> 20 [] h > 20000 /\ h <= 30000 -> 15
                [] h > 10000 /\ h <= 20000 -> 10
                [] h > 5000 /\ h <= 10000 -> 5 [] OTHER -> 0
        W == IF h <= 0 THEN 0
             ELSE CASE AvgAbove(pd, h, 25) -> 20
                    [] ~AvgAbove(pd, h, 25) /\ AvgAbove(pd, h, 20) -> 15
                    [] ~AvgAbove(pd, h, 20) /\ AvgAbove(pd, h, 15) -> 10
                    [] ~AvgAbove(pd, h, 15) /\ AvgAbove(pd, h, 10) -> 5
                    [] OTHER -> 0
    IN  IF 60 + H + W > 100 THEN 100 ELSE 60 + H + W

\* C16: calculatePerformanceScore returns min(100, 60 + H + W) for whole
\* households and person-days, H by the household tiers and W by the tiers
\* of person-days per household (0 when there are no households); applying
\* it changes neither table nor any request.
C16_ScoreReference ==
    [][input.kind = "point" /\ output = <<>> /\ output' # <<>> =>
          /\ output'[1].score
                = ReferenceScore(input.h, input.h * input.n + input.d)
          /\ UNCHANGED <<READ_ONLY_DB, now, api_cache, performance_data, req,
                         nreq, input, view>>]_vars

\* The scorer applied to 20001 households at just over 25 days each: the
\* sum 60 + 15 + 20.
C16_Witness ==
    /\ input.kind = "point" /\ output # <<>>
    /\ input.h = 20001 /\ input.n = 25 /\ input.d = 1
    /\ output[1].score = 95

\* The positions of the rows of a list whose lower-cased district_name
\* contains a candidate of the district.
MatchingAt(records, code) ==
    {k \in 1..Len(records) :
        \E c \in Candidates(findDistrict(code)) :
            Contains(toLowerCase(records[k].district_name), c)}

\* The first of those rows in upstream order.
FirstMatching(records, code) ==
    LET idx == MatchingAt(records, code)
    IN  records[CHOOSE k \in idx : \A j \in idx : k <= j]

\* C17: processAPIData throws when no row of the list matches the district
\* and otherwise returns the bundle of the first matching row in upstream
\* order: the bundle it returns for that row alone, whatever the later
\* matching rows and the non-matching rows hold.
C17_FirstMatch ==
    input.kind = "rows" /\ output # <<>> =>
        IF MatchingAt(input.records, input.code) = {}
        THEN ~output[1].ok
        ELSE LET first == FirstMatching(input.records, input.code)
             IN  /\ output[1].ok
                 /\ output[1].value
                       = processAPIData(<<first>>, input.code, M202312, now).value
                 /\ output[1].value.total_households
                       = parseOrZero(first.Total_Households_Worked)
                 /\ output[1].value.total_person_days
                       = parseOrZero(first.Persondays_of_Central_Liability_so_far)
                 /\ output[1].value.total_amount_spent
                       = parseOrZero(first.Total_Exp)

\* A list of a Krishna row, the Guntur row and the NTR row handed over for
\* AP004: the bundle is that of the Guntur row, not of the NTR row.
C17_Witness ==
    /\ input.kind = "rows" /\ output # <<>>
    /\ input.code = AP004
    /\ input.records = <<RowKrishna, RowGuntur, RowNTR>>
    /\ output[1].ok
    /\ output[1].value.total_person_days = 7000
    /\ output[1].value.total_person_days
          # parseOrZero(RowNTR.Persondays_of_Central_Liability_so_far)

\* The numeric fields of the bundle and the fields of the upstream row they
\* are parsed from.
NumericFields ==
    {<<"total_households", "Total_Households_Worked">>,
     <<"total_person_days", "Persondays_of_Central_Liability_so_far">>,
     <<"total_amount_spent", "Total_Exp">>,
     <<"avg_days_per_household", "Average_days_of_employment_provided_per_Household">>,
     <<"average_wage_rate", "Average_Wage_rate_per_day_per_person">>,
     <<"women_persondays", "Women_Persondays">>,
     <<"sc_persondays", "SC_persondays">>,
     <<"st_persondays", "ST_persondays">>,
     <<"completed_works", "Number_of_Completed_Works">>,
     <<"ongoing_works", "Number_of_Ongoing_Works">>,
     <<"total_individuals_worked", "Total_Individuals_Worked">>,
     <<"total_job_cards", "Total_No_of_JobCards_issued">>,
     <<"households_100_days", "Total_No_of_HHs_completed_100_Days_of_Wage_Employment">>,
     <<"differently_abled_worked", "Differently_abled_persons_worked">>,
     <<"payment_within_15_days", "percentage_payments_gererated_within_15_days">>}

\* C18: in the bundle of a matched row every numeric field whose upstream
\* value is missing or is no number is 0, avg_amount_per_household is 0 when
\* the household count is 0, the score is a number from 0 to 100, and the
\* bundle is tagged as upstream.
C18_DefensiveParsing ==
    input.kind = "rows" /\ output # <<>> /\ output[1].ok =>
        LET first == FirstMatching(input.records, input.code)
            bundle == output[1].value
        IN  /\ \A f \in NumericFields :
                  first[f[2]] \in {Missing, Garbage} => bundle[f[1]] = 0
            /\ bundle.total_households = 0 => bundle.avg_amount_per_household = 0
            /\ bundle.performance_score \in 0..100
            /\ bundle.data_source = SourceUpstream

\* The bundle of a row whose every numeric field is no number, and the
\* bundle of a row with 0 households and person-days given.
C18_Witness ==
    /\ input.kind = "rows" /\ output # <<>> /\ output[1].ok
    /\ input.code = AP004
    /\ \/ /\ input.records = <<RowGarbled>>
          /\ output[1].value.total_amount_spent = 0
          /\ output[1].value.payment_within_15_days = 0
       \/ /\ input.records = <<RowGuntur>>
          /\ output[1].value.total_person_days = 7000
          /\ output[1].value.avg_amount_per_household = 0

\* C19: the synthetic bundle of a district and period has total_households
\* from 15000 to 45000, avg_days_per_household from 18 to 28 (kept in
\* hundredths), average_wage_rate from 200 to 250 (in hundredths) and
\* performance_score from 75 to 95; total_person_days is total_households
\* times avg_days_per_household, and total_amount_spent, in units of 10^-7,
\* is total_person_days times average_wage_rate.
C19_SyntheticRanges ==
    input.kind = "generate" /\ output # <<>> =>
        LET b == output[1].first
        IN  /\ b.total_households \in 15000..45000
            /\ b.avg_days_per_household \in 1800..2800
            /\ b.average_wage_rate \in 20000..25000
            /\ b.performance_score \in 75..95
            /\ b.avg_days_per_household % 100 = 0
            /\ b.average_wage_rate % 100 = 0
            /\ b.total_person_days
                  = b.total_households * (b.avg_days_per_household \div 100)
            /\ b.total_amount_spent
                  = b.total_person_days * (b.average_wage_rate \div 100)

\* The synthetic bundle of AP004 and 2023-03: 28207 households at 22 days
\* and a wage rate of 222.
C19_Witness ==
    /\ input.kind = "generate" /\ output # <<>>
    /\ input.code = AP004 /\ input.m = 3
    /\ output[1].first.total_households = 28207
    /\ output[1].first.total_person_days = 28207 * 22
    /\ output[1].first.total_amount_spent = 28207 * 22 * 222

\* The positions of a handler inside fetchDistrictData: waiting for the
\* SELECT of the cache, for the upstream, or for the cache's INSERT.
InFetch == {"cache_read", "upstream", "cache_write"}

\* C20: a request waits for one operation at a time.  Within a
\* fetchDistrictData call the upstream request is sent only once the cache
\* read has answered with a miss, and the cache write is queued only once
\* the upstream request has settled; within getDistrictHistory and
\* getDistrictComparison the next sub-fetch is called only in the step that
\* settles the one before it, so that sub-fetch i + 1 is in flight exactly
\* when i sub-fetches have ended.
C20_NoFanOut ==
    [][\A p \in Slots :
          LET r == req[p]
              r2 == req'[p]
          IN  r2 # r =>
                /\ r2.pc \in InFetch => Len(r2.attempts) = r2.i
                /\ r2.pc = "upstream" =>
                      /\ r.pc = "cache_read" /\ r2.id = r.id /\ r2.i = r.i
                      /\ r2.cacheRead = "miss" /\ r2.upstream = "none"
                /\ r2.pc = "cache_write" =>
                      /\ r.pc = "upstream" /\ r2.id = r.id /\ r2.i = r.i
                      /\ r2.upstream # "none"
                /\ (r2.pc = "cache_read" /\ r2.id = r.id) =>
                      /\ r.pc \in InFetch
                      /\ r2.i = r.i + 1
                      /\ Len(r2.attempts) = Len(r.attempts) + 1
                /\ (r2.pc = "cache_read" /\ r2.id # r.id) =>
                      /\ r.pc \notin InFetch
                      /\ r2.i = 0 /\ r2.attempts = <<>>]_vars

\* A history of two months, or a comparison of two districts, both of whose
\* sub-fetches read the cache, asked the upstream and wrote the cache.
C20_Witness ==
    /\ req[1].pc = "done" /\ req[1].kind \in {"history", "comparison"}
    /\ Len(req[1].attempts) = 2
    /\ \A k \in 1..2 : /\ req[1].attempts[k].cacheRead = "miss"
                        /\ req[1].attempts[k].upstream # "none"
                        /\ req[1].attempts[k].write = "ok"

\* The call a handler has just ended, in the state after the step.
LastAttempt(r) == r.attempts[Len(r.attempts)]

\* The rows of a cache table under the key of a call.
RowsOfKey(table, a) ==
    {row \in table : row.cache_key = cacheKey(a.districtCode, a.monthYear)}

\* C21: however fetchDistrictData calls for one key interleave, api_cache
\* holds at most one entry per key; after the INSERT OR REPLACE of a call
\* the entry of its key is the whole bundle of that call, the last writer,
\* with expires_at 6 hours after its write; and a call answered from the
\* cache returns the whole bundle of the entry of its key.
C21_ConcurrentSameKey ==
    [][/\ \A r1 \in api_cache', r2 \in api_cache' :
              r1.cache_key = r2.cache_key => r1 = r2
       /\ \A p \in Slots :
            req[p].pc = "cache_write" /\ req'[p] # req[p]
               /\ LastAttempt(req'[p]).write = "ok" =>
              LET a == LastAttempt(req'[p])
              IN  /\ a.ok
                  /\ RowsOfKey(api_cache', a)
                        = {[cache_key |-> cacheKey(a.districtCode, a.monthYear),
                            data |-> JSONstringify(a.value[1]),
                            expires_at |-> toISOString(now + 6)]}
       /\ \A p \in Slots :
            req[p].pc = "cache_read" /\ req'[p] # req[p]
               /\ req'[p].pc # "upstream"
               /\ LastAttempt(req'[p]).cacheRead = "hit" =>
              LET a == LastAttempt(req'[p])
              IN  /\ a.ok
                  /\ \E row \in RowsOfKey(api_cache, a) :
                        a.value[1] = JSONparse(row.data)
                  /\ DOMAIN a.value[1]
                        = DOMAIN generateMockData(a.districtCode, a.monthYear, now)
      ]_vars

\* Two overlapping calls for one key that both missed the cache and wrote
\* bundles of different sources: the entry is that of the second writer.
C21_Witness ==
    \E a \in AllAttempts, b \in AllAttempts :
        /\ a.id # b.id /\ SameKey(a, b)
        /\ a.write = "ok" /\ b.write = "ok"
        /\ a.id \notin b.doneBefore /\ b.id \notin a.doneBefore
        /\ a.value[1].data_source # b.value[1].data_source
        /\ Cardinality(RowsOfKey(api_cache, a)) = 1
        /\ RowWritten(b) \in api_cache

C23_AsStated ==
    [][~READ_ONLY_DB /\ nreq' = nreq + 1 /\ req' = req =>
         \A i \in 1..Len(andhraPradeshDistricts) :
            LET key == cacheKey(andhraPradeshDistricts[i].code, currentMonth(now))
            IN  /\ getCachedData(api_cache, key, now) = <<>>
                /\ \E row \in api_cache' :
                      /\ row.cache_key = key
                      /\ row.expires_at = toISOString(now + 6)
      ]_vars

\* C24 as stated: a comparison request answered with rows has exactly one
\* row for each requested district code, whatever rows performance_data held
\* for the month when the request arrived.
C24_AsStated ==
    \A p \in Slots :
       req[p].kind = "comparison" /\ req[p].pc = "done" /\ req[p].status = 200 =>
           /\ Len(req[p].out) = Len(req[p].codes)
           /\ \A i \in 1..Len(req[p].codes) :
                 Cardinality({j \in 1..Len(req[p].out) :
                                 req[p].out[j].district_code = req[p].codes[i]}) = 1

\* The English three-letter month names, and the fiscal year (April of one
\* year to March of the next) that holds month m of year y.
EnglishMonth(m) ==
    << <<"J","a","n">>, <<"F","e","b">>, <<"M","a","r">>, <<"A","p","r">>,
       <<"M","a","y">>, <<"J","u","n">>, <<"J","u","l">>, <<"A","u","g">>,
       <<"S","e","p">>, <<"O","c","t">>, <<"N","o","v">>, <<"D","e","c">> >>[m]
FiscalYear(y, m) ==
    LET start == IF m >= 4 THEN y ELSE y - 1
    IN  pad4(start) \o <<"-">> \o pad4(start + 1)

\* C25 as stated: for every period YYYY-MM the upstream query carries the
\* English three-letter name of month MM as month filter, the fiscal year
\* (April to March) that contains the month as fin_year filter, and the
\* state filter ANDHRA PRADESH.
C25_AsStated ==
    input.kind = "period" /\ output # <<>> =>
        /\ output[1].month = EnglishMonth(input.m)
        /\ output[1].fin_year = FiscalYear(input.y, input.m)
        /\ output[1].state_name =
              <<"A","N","D","H","R","A"," ","P","R","A","D","E","S","H">>

\* The districts at the least distance from a point, and the first of them
\* in list order.
NearestTo(latitude, longitude) ==
    {i \in 1..Len(andhraPradeshDistricts) :
        \A j \in 1..Len(andhraPradeshDistricts) :
           ~lessThan(distance(districtCoordinates[j], latitude, longitude),
                     distance(districtCoordinates[i], latitude, longitude))}
FirstNearest(latitude, longitude) ==
    CHOOSE i \in NearestTo(latitude, longitude) :
       \A j \in NearestTo(latitude, longitude) : i <= j

\* C26 as stated: a detection request whose body has a latitude and a
\* longitude is answered with the code and name of the district at the least
\* Euclidean distance from the point, the first in list order on a tie.
C26_AsStated ==
    input.kind = "locate" /\ output # <<>>
    /\ input.latitude # Missing /\ input.longitude # Missing =>
        LET district == andhraPradeshDistricts[
                            FirstNearest(input.latitude[2], input.longitude[2])]
        IN  /\ output[1].status = 200
            /\ output[1].body.district_code = district.code
            /\ output[1].body.district_name = district.name

\* The numeric fields of a synthetic bundle.
SyntheticNumericFields ==
    {"total_households", "total_person_days", "total_amount_spent",
     "avg_days_per_household", "avg_amount_per_household", "performance_score",
     "average_wage_rate", "women_persondays", "sc_persondays", "st_persondays",
     "completed_works", "ongoing_works", "total_individuals_worked",
     "total_job_cards", "households_100_days", "differently_abled_worked",
     "payment_within_15_days"}

\* The character codes at position 2 of a code and at positions 5 and 6 of a
\* period, added up (positions count from 0).
SeedSum(code, period) ==
    charCode(code[3]) + charCode(period[6]) + charCode(period[7])

\* C27: every numeric field of a synthetic bundle is the value the generator
\* derives from the sum of the character codes at position 2 of the district
\* code and positions 5 and 6 of the period; so two calls whose sums are
\* equal - in particular two calls whose codes agree at position 2 and whose
\* month digits have the same sum - return the same value in every numeric
\* field.
C27_SeedDependence ==
    input.kind = "seeds" /\ output # <<>> =>
        LET p1 == PeriodOf(input.y1, input.m1)
            p2 == PeriodOf(input.y2, input.m2)
        IN  /\ \A f \in SyntheticNumericFields :
                  /\ output[1].first[f] =
                        mockBundle(AP004, M202312, now, SeedSum(input.c1, p1))[f]
                  /\ output[1].second[f] =
                        mockBundle(AP004, M202312, now, SeedSum(input.c2, p2))[f]
            /\ SeedSum(input.c1, p1) = SeedSum(input.c2, p2) =>
                  \A f \in SyntheticNumericFields :
                     output[1].first[f] = output[1].second[f]
            /\ /\ input.c1[3] = input.c2[3]
               /\ charCode(p1[6]) + charCode(p1[7]) = charCode(p2[6]) + charCode(p2[7])
               => \A f \in SyntheticNumericFields :
                     output[1].first[f] = output[1].second[f]

\* Guntur in March 2023 and YSR Kadapa in March 2024 got the same numbers.
C27_Witness ==
    /\ input.kind = "seeds" /\ output # <<>>
    /\ input.c1 = AP004 /\ input.c2 = AP013
    /\ input.y1 = 2023 /\ input.y2 = 2024
    /\ input.m1 = 3 /\ input.m2 = 3
    /\ output[1].first.district_code # output[1].second.district_code
    /\ output[1].first.month_year # output[1].second.month_year
    /\ \A f \in SyntheticNumericFields : output[1].first[f] = output[1].second[f]

\* C28 as stated: with the database writable, when a history request is
\* answered, every row it added to performance_data has the requested
\* district_code, and for each entry of the response the table holds exactly
\* one row with the requested district_code and the entry's month_year.
C28_AsStated ==
    [][\A p \in Slots :
          /\ ~READ_ONLY_DB
          /\ req[p].pc # "done" /\ req'[p].pc = "done"
          /\ req'[p].kind = "history" /\ req'[p].status = 200
          => /\ \A k \in 1..Len(performance_data') :
                   (\A j \in 1..Len(performance_data) :
                       performance_data[j] # performance_data'[k])
                   => performance_data'[k].district_code = req'[p].codes[1]
             /\ \A e \in 1..Len(req'[p].out) :
                   Cardinality({k \in 1..Len(performance_data') :
                       /\ performance_data'[k].district_code = req'[p].codes[1]
                       /\ performance_data'[k].month_year
                             = req'[p].out[e].month_year}) = 1
      ]_vars

\* C29 as stated: when a month is picked while a district is selected, the
\* view sends one comparison request, and the request asks for the month
\* picked.
C29_AsStated ==
    [][\A monthValue \in MonthOptions :
          Len(view.selectedDistricts) > 0 /\ handleMonthChange(monthValue) =>
              /\ Len(view'.requests) = Len(view.requests) + 1
              /\ view'.requests[Len(view'.requests)].month = monthValue
      ]_vars

\* C30 as stated: after clicks on district cards, once every request has
\* been answered with rows and none is outstanding, comparisonData holds the
\* rows of the response to the request sent last, or nothing when no
\* district is selected; and loading is true only while a request is
\* outstanding.
C30_AsStated ==
    /\ view.loading => view.outstanding # {}
    /\ view.outstanding = {} /\ view.error = NULL =>
          IF Len(view.selectedDistricts) = 0
          THEN view.comparisonData = <<>>
          ELSE /\ Len(view.requests) > 0
               /\ view.comparisonData
                     = responseData(view.requests[Len(view.requests)])

====
